---- MODULE Spec2Model ----
(***************************************************************************)
(* Circuit-input generators of zk-app-demo.                                *)
(*                                                                         *)
(*   stream family : src/src/utils/generate_chacha20_circuit_inputs.js     *)
(*   block family  : the AES-256-CTR generator (src/unnamed/part_003)      *)
(*                                                                         *)
(* One run of a generator script is modelled: the process environment      *)
(* (CIRCUIT_SIZE) and the parsed input JSON are fixed in the initial       *)
(* state, and one action per generator function turns them into a circuit  *)
(* input document, the console log and, possibly, a thrown error.          *)
(*                                                                         *)
(* Three specifications share the variables:                               *)
(*   Spec      : one call of a generator on one parsed input               *)
(*   BatchSpec : the batch loops over a list of input files                *)
(*               (processAllInputFiles, main / processInputFile) and the   *)
(*               summary each script prints at the end                     *)
(*   UnitSpec  : single calls of bytesToBits32, verifyCircuitOutputs       *)
(*               (src/unnamed/part_002), buildJson (generate_json.js,      *)
(*               generate_multi_json.js),                                  *)
(*               generateChaCha20_50KB_CircuitInputs                       *)
(*               (generate_50kb_circuit_inputs.js), generateWorkingProof   *)
(*               (src/unnamed/part_004) and runs of chacha20_workflow.js   *)
(* The converter parse_string_to_chacha.js is an operator applied to the   *)
(* input of a run.                                                         *)
(*                                                                         *)
(* Representation notes.                                                   *)
(*  - Sequences are 1-based: element i of a JavaScript array is element    *)
(*    i+1 here.                                                            *)
(*  - A Buffer is the sequence of its bytes (0..255).  A text or base64    *)
(*    user_data string is represented by the bytes Buffer.from decodes it  *)
(*    to; the empty string is the empty sequence (and is falsy).           *)
(*  - A hex string is the sequence of its hex digits (0..15).              *)
(*  - A JavaScript number that may leave the 31-bit range is a pair of     *)
(*    limbs [hi, lo] standing for hi * 65536 + lo, with lo in 0..65535.    *)
(*  - An int32 (the operand type of <<, >>, | and &) is the sequence of    *)
(*    its four two's-complement bytes, least significant first.            *)
(***************************************************************************)
EXTENDS Integers, Sequences, FiniteSets, TLC

(***************************************************************************)
(* Bounds of the checked input space.                                      *)
(***************************************************************************)
\* payload lengths reach MaxOver bytes beyond each capacity
MaxOver == 1
\* payload byte patterns 0..MaxSeed
MaxSeed == 1

(***************************************************************************)
(* Size-profile configuration (module level code of both generators).      *)
(***************************************************************************)
\* process.env.CIRCUIT_SIZE is a string, or unset
Unset == "<unset>"

\* the values of the environment variable that are explored
EnvValues == {Unset, "64B", "1KB", "10KB", "20KB", "5KB"}

\* chacha20: const CIRCUIT_SIZE = process.env.CIRCUIT_SIZE || "1KB"
ChaChaCircuitSize(env) == IF env = Unset \/ env = "" THEN "1KB" ELSE env

\* NUM_BLOCKS with the 10KB branch left at the default block count
NUM_BLOCKS_Default(env) ==
  LET cs == ChaChaCircuitSize(env)
  IN  IF cs = "64B" THEN 1 ELSE 16

\* chacha20: the if / else-if / else chain that sets NUM_BLOCKS
NUM_BLOCKS(env) ==
  LET cs == ChaChaCircuitSize(env)
  IN  IF cs = "10KB" THEN 160
      ELSE IF cs = "64B" THEN 1
      ELSE 16

\* chacha20: the same chain sets MAX_SIZE
ChaChaMaxSize(env) ==
  LET cs == ChaChaCircuitSize(env)
  IN  IF cs = "10KB" THEN 10240
      ELSE IF cs = "64B" THEN 64
      ELSE 1024

\* chacha20: const BLOCK_SIZE = 64
BLOCK_SIZE == 64

\* aes256: const CIRCUIT_SIZE = process.env.CIRCUIT_SIZE || "1KB"
AesCircuitSize(env) == IF env = Unset \/ env = "" THEN "1KB" ELSE env

\* aes256: the if / else-if / else chain that sets NUM_BYTES
NUM_BYTES(env) ==
  LET cs == AesCircuitSize(env)
  IN  IF cs = "20KB" THEN 20480
      ELSE IF cs = "10KB" THEN 10240
      ELSE IF cs = "64B" THEN 64
      ELSE 1024

\* aes256: the same chain sets MAX_SIZE
AesMaxSize(env) ==
  LET cs == AesCircuitSize(env)
  IN  IF cs = "20KB" THEN 20480
      ELSE IF cs = "10KB" THEN 10240
      ELSE IF cs = "64B" THEN 64
      ELSE 1024

(***************************************************************************)
(* 32-bit integer arithmetic of JavaScript's bitwise operators.            *)
(***************************************************************************)
Pow2(n) == 2 ^ n

\* ToInt32 of an integer x of the 31-bit range, as four bytes, low first
ToInt32(x) ==
  << x % 256, (x \div 256) % 256, (x \div 65536) % 256, (x \div 16777216) % 256 >>

\* ToInt32 of a number given by its limbs
NumToInt32(n) ==
  << n.lo % 256, (n.lo \div 256) % 256, n.hi % 256, (n.hi \div 256) % 256 >>

\* a | b on single bytes
RECURSIVE OrByte(_, _)
OrByte(a, b) ==
  IF a = 0 THEN b
  ELSE IF b = 0 THEN a
  ELSE (IF a % 2 = 1 \/ b % 2 = 1 THEN 1 ELSE 0) + 2 * OrByte(a \div 2, b \div 2)

\* a | b on int32
Or32(a, b) == << OrByte(a[1], b[1]), OrByte(a[2], b[2]), OrByte(a[3], b[3]), OrByte(a[4], b[4]) >>

\* x << s on int32, for s a multiple of 8
Shl32(x, s) ==
  CASE s = 0 -> x
    [] s = 8 -> << 0, x[1], x[2], x[3] >>
    [] s = 16 -> << 0, 0, x[1], x[2] >>
    [] s = 24 -> << 0, 0, 0, x[1] >>

\* (value >> i) & 1 on int32, for i in 0..31: the arithmetic shift keeps bit i
ShrAnd1(value, i) == (value[(i \div 8) + 1] \div Pow2(i % 8)) % 2

(***************************************************************************)
(* Small helpers for JavaScript strings, arrays and numbers.               *)
(***************************************************************************)
Min(a, b) == IF a <= b THEN a ELSE b

\* the array of length n whose elements are those of the function f on 1..n
ArrayOf(f, n) == SubSeq(f, 1, n)

\* new Array(n).fill(0), Buffer.alloc(n)
Zeros(n) == ArrayOf([i \in 1..n |-> 0], n)

\* String.prototype.padEnd(n, "0") on a string of hex digits
PadEnd(s, n) == IF Len(s) >= n THEN s ELSE s \o Zeros(n - Len(s))

\* String.prototype.substring(0, n)
Substring(s, n) == SubSeq(s, 1, Min(n, Len(s)))

\* Array.prototype.slice(from, to) and Buffer.prototype.slice(from, to)
Slice(s, from, to) == SubSeq(s, from + 1, Min(to, Len(s)))

\* HexPairsToBytes with parseInt reading only the first digit of each pair
HexPairsFirstDigit(hex) ==
  ArrayOf([k \in 1..((Len(hex) + 1) \div 2) |-> hex[2 * k - 1]], (Len(hex) + 1) \div 2)

\* the loop "for (i = 0; i < hex.length; i += 2) push(parseInt(hex.substring(i, i + 2), 16))"
\* on a string of hex digits (a trailing single digit is parsed on its own)
HexPairsToBytes(hex) ==
  ArrayOf([k \in 1..((Len(hex) + 1) \div 2) |->
             IF 2 * k <= Len(hex) THEN 16 * hex[2 * k - 1] + hex[2 * k]
             ELSE hex[2 * k - 1]],
          (Len(hex) + 1) \div 2)

\* Buffer.from(hexString, "hex"): whole pairs of digits only
BufferFromHex(hex) ==
  ArrayOf([k \in 1..(Len(hex) \div 2) |-> 16 * hex[2 * k - 1] + hex[2 * k]],
          Len(hex) \div 2)

\* a JavaScript number as limbs: hi * 65536 + lo
Num(hi, lo) == [nan |-> FALSE, hi |-> hi, lo |-> lo]
NaN == [nan |-> TRUE, hi |-> 0, lo |-> 0]
One == Num(0, 1)
IsZero(n) == ~n.nan /\ n.hi = 0 /\ n.lo = 0

\* a JSON field: kind is "absent", "hex" (string of hex digits), "array"
\* (array of integers), "num" (number) or "str" (decimal string)
Absent == [kind |-> "absent", val |-> <<>>, num |-> NaN]
HexField(digits) == [kind |-> "hex", val |-> digits, num |-> NaN]
ArrayField(ints) == [kind |-> "array", val |-> ints, num |-> NaN]
NumField(n) == [kind |-> "num", val |-> <<>>, num |-> n]
StrField(n) == [kind |-> "str", val |-> <<>>, num |-> n]

\* JavaScript truthiness of a field
Truthy(f) ==
  CASE f.kind = "absent" -> FALSE
    [] f.kind = "hex" -> f.val # <<>>
    [] f.kind = "array" -> TRUE
    [] f.kind = "num" -> ~f.num.nan /\ ~IsZero(f.num)
    [] f.kind = "str" -> TRUE

\* parseInt(field) for a number or a decimal string
ParseInt(f) == IF f.kind \in {"num", "str"} THEN f.num ELSE NaN

(***************************************************************************)
(* Console output and results.                                             *)
(***************************************************************************)
LogEvent(kind, about, a, b) == [kind |-> kind, about |-> about, a |-> a, b |-> b]

EmptyDoc == [key |-> <<>>, nonce |-> <<>>, counter |-> <<>>, ciphertext |-> <<>>]

Thrown(msg, log) == [status |-> "error", error |-> msg, doc |-> EmptyDoc, log |-> log]
Returned(doc, log) == [status |-> "ok", error |-> "", doc |-> doc, log |-> log]

(***************************************************************************)
(* Stream family: generate_chacha20_circuit_inputs.js                      *)
(***************************************************************************)
\* intToBits32(value): bits.push((value >> i) & 1) for i = 0..31
intToBits32(value) == ArrayOf([i \in 1..32 |-> ShrAnd1(value, i - 1)], 32)

\* WordLE with the bytes taken in big-endian order
WordBE(bytes) ==
  Or32(Or32(Or32(Shl32(ToInt32(bytes[1]), 24), Shl32(ToInt32(bytes[2]), 16)),
            Shl32(ToInt32(bytes[3]), 8)),
       ToInt32(bytes[4]))

\* the word of bytesToBits32:
\* (bytes[3] << 24) | (bytes[2] << 16) | (bytes[1] << 8) | bytes[0]
WordLE(bytes) ==
  Or32(Or32(Or32(Shl32(ToInt32(bytes[4]), 24), Shl32(ToInt32(bytes[3]), 16)),
            Shl32(ToInt32(bytes[2]), 8)),
       ToInt32(bytes[1]))

\* bytesToBits32(bytes): the bits it returns when it does not throw
bytesToBits32(bytes) == intToBits32(WordLE(bytes))

\* bytesToBits32Throws with the guard "bytes.length < 4"
bytesToBits32ThrowsShort(bytes) == Len(bytes) < 4

\* bytesToBits32(bytes): "if (bytes.length !== 4) throw new Error(...)"
bytesToBits32Throws(bytes) == Len(bytes) # 4

\* a call of bytesToBits32(bytes): the thrown error or the returned bits
bytesToBits32Call(bytes) ==
  IF bytesToBits32Throws(bytes)
  THEN [status |-> "error", error |-> "Expected 4 bytes, got", got |-> Len(bytes), bits |-> << >>]
  ELSE [status |-> "ok", error |-> "", got |-> 0, bits |-> bytesToBits32(bytes)]

\* the console warning of convertBytesToCircuitInput
ConvertWarning(bytes, expectedWords, about) ==
  IF Len(bytes) # expectedWords * 4
  THEN << LogEvent("Warning", about, expectedWords * 4, Len(bytes)) >>
  ELSE << >>

\* paddedBytes of convertBytesToCircuitInput
PaddedBytes(bytes, n) ==
  ArrayOf([i \in 1..n |-> IF i <= Len(bytes) THEN bytes[i] ELSE 0], n)

\* convertBytesToCircuitInput without the padding step: the words the given
\* bytes fill
convertBytesNoPadding(bytes, expectedWords) ==
  ArrayOf([i \in 1..(Len(bytes) \div 4) |->
             bytesToBits32(Slice(bytes, (i - 1) * 4, i * 4))], Len(bytes) \div 4)

\* convertBytesToCircuitInput(bytes, expectedWords): the returned words
convertBytesToCircuitInput(bytes, expectedWords) ==
  LET paddedBytes == PaddedBytes(bytes, expectedWords * 4)
  IN  ArrayOf([i \in 1..expectedWords |->
                 bytesToBits32(Slice(paddedBytes, (i - 1) * 4, i * 4))], expectedWords)

\* which branch of the format detection an input takes
ChaChaFormat(inputData) ==
  IF inputData.user_data # <<>> /\ Truthy(inputData.chacha20_key)
     /\ inputData.chacha20_key.kind = "hex"
  THEN "string"
  ELSE IF Truthy(inputData.chacha20_key) /\ inputData.chacha20_key.kind = "array"
  THEN "chacha"
  ELSE "invalid"

\* Buffer.from("default test data", "utf8")
DefaultTestData ==
  << 100, 101, 102, 97, 117, 108, 116, 32, 116, 101, 115, 116, 32, 100, 97, 116, 97 >>

\* userData as the format branches resolve it
ChaChaUserData(inputData) ==
  IF ChaChaFormat(inputData) = "string" THEN inputData.user_data
  ELSE IF inputData.user_data # <<>> THEN inputData.user_data
  ELSE DefaultTestData

\* keyArray as the format branches resolve it
ChaChaKeyArray(inputData) ==
  IF ChaChaFormat(inputData) = "string"
  THEN HexPairsToBytes(Substring(PadEnd(inputData.chacha20_key.val, 64), 64))
  ELSE inputData.chacha20_key.val

\* nonceArray as the format branches resolve it
ChaChaNonceArray(inputData) ==
  IF ChaChaFormat(inputData) = "string"
  THEN HexPairsToBytes(Substring(PadEnd(inputData.chacha20_nonce.val, 24), 24))
  ELSE inputData.chacha20_nonce.val

\* ChaChaCounter advanced by one for every further 64-byte block the payload
\* fills
ChaChaCounterPerBlock(inputData) ==
  LET base == IF ChaChaFormat(inputData) = "string"
              THEN IF Truthy(inputData.chacha20_counter)
                   THEN ParseInt(inputData.chacha20_counter) ELSE One
              ELSE ParseInt(inputData.chacha20_counter)
      n == Len(ChaChaUserData(inputData))
  IN  IF base.nan \/ n <= 64 THEN base ELSE Num(base.hi, base.lo + (n - 1) \div 64)

\* counter as the format branches resolve it
ChaChaCounter(inputData) ==
  IF ChaChaFormat(inputData) = "string"
  THEN IF Truthy(inputData.chacha20_counter)
       THEN ParseInt(inputData.chacha20_counter) ELSE One
  ELSE ParseInt(inputData.chacha20_counter)

\* processedData: userData padded or cut to MAX_SIZE
ProcessedData(userData, maxSize) ==
  ArrayOf([i \in 1..maxSize |-> IF i <= Len(userData) THEN userData[i] ELSE 0], maxSize)

\* ciphertextBlocks: one entry of 16 words per block
CiphertextBlocks(processedData, numBlocks) ==
  ArrayOf([b \in 1..numBlocks |->
             convertBytesToCircuitInput(
               Slice(processedData, (b - 1) * BLOCK_SIZE, (b - 1) * BLOCK_SIZE + BLOCK_SIZE),
               16)],
          numBlocks)

\* the warnings logged while the blocks are converted: one for each block
\* whose slice of processedData is not BLOCK_SIZE bytes long, in block order
BlockWarnings(processedData, numBlocks) ==
  LET blockBytes(b) ==
        Slice(processedData, (b - 1) * BLOCK_SIZE, (b - 1) * BLOCK_SIZE + BLOCK_SIZE)
      warned == {b \in 1..numBlocks : ConvertWarning(blockBytes(b), 16, "ciphertext") # << >>}
      nth(n) == CHOOSE b \in warned : Cardinality({c \in warned : c < b}) = n - 1
  IN  [n \in 1..Cardinality(warned) |->
         ConvertWarning(blockBytes(nth(n)), 16, "ciphertext")[1]]

\* generateChaCha20CircuitInputs(inputData) under the module's CIRCUIT_SIZE
generateChaCha20CircuitInputs(env, inputData) ==
  IF ChaChaFormat(inputData) = "invalid"
  THEN Thrown("Invalid input format. Expected string format or ChaCha format.", << >>)
  ELSE IF inputData.chacha20_nonce.kind # inputData.chacha20_key.kind
  THEN \* undefined.padEnd, undefined.map, "..".map: a TypeError
       Thrown("TypeError", << >>)
  ELSE
    LET userData == ChaChaUserData(inputData)
        keyArray == ChaChaKeyArray(inputData)
        nonceArray == ChaChaNonceArray(inputData)
        counter == ChaChaCounter(inputData)
        keyBits == convertBytesToCircuitInput(keyArray, 8)
        nonceBits == convertBytesToCircuitInput(nonceArray, 3)
        counterBits == IF counter.nan THEN intToBits32(ToInt32(0))
                       ELSE intToBits32(NumToInt32(counter))
        processedData == ProcessedData(userData, ChaChaMaxSize(env))
        ciphertextBlocks == CiphertextBlocks(processedData, NUM_BLOCKS(env))
        log == ConvertWarning(keyArray, 8, "key")
               \o ConvertWarning(nonceArray, 3, "nonce")
               \o BlockWarnings(processedData, NUM_BLOCKS(env))
               \o << LogEvent("Converted", "ciphertext", Len(userData), ChaChaMaxSize(env)) >>
    IN  Returned([key |-> keyBits, nonce |-> nonceBits, counter |-> counterBits,
                  ciphertext |-> ciphertextBlocks], log)

(***************************************************************************)
(* Stream family circuit: zkproof/chacha20.circom                          *)
(***************************************************************************)
\* the dimensions of "signal input ciphertext" in the template of each size:
\* ChaCha20DecryptDemo, ChaCha20Decrypt1KB and ChaCha20Decrypt10KB
DeclaredCiphertextDims(size) ==
  CASE size = "64B" -> << 16, 32 >>
    [] size = "1KB" -> << 16, 16, 32 >>
    [] size = "10KB" -> << 160, 16, 32 >>

(***************************************************************************)
(* Block-cipher family: the AES-256-CTR generator                          *)
(***************************************************************************)
\* convertBytesToBits with the inner loop running j = 0 up to 7
convertBytesToBitsLSB(bytes) ==
  ArrayOf([n \in 1..(8 * Len(bytes)) |->
             (bytes[((n - 1) \div 8) + 1] \div Pow2((n - 1) % 8)) % 2],
          8 * Len(bytes))

\* convertBytesToBits(bytes): for each byte, bits.push((bytes[i] >> j) & 1)
\* for j = 7 down to 0
convertBytesToBits(bytes) ==
  ArrayOf([n \in 1..(8 * Len(bytes)) |->
             (bytes[((n - 1) \div 8) + 1] \div Pow2(7 - ((n - 1) % 8))) % 2],
          8 * Len(bytes))

\* padOrTruncateData(data, targetSize): the returned buffer
padOrTruncateData(data, targetSize) ==
  IF Len(data) > targetSize THEN Slice(data, 0, targetSize)
  ELSE IF Len(data) < targetSize THEN data \o Zeros(targetSize - Len(data))
  ELSE data

\* PadOrTruncateLog with "<=" in the second comparison
PadOrTruncateLogLe(data, targetSize) ==
  IF Len(data) > targetSize
  THEN << LogEvent("Truncated", "ciphertext", Len(data), targetSize) >>
  ELSE IF Len(data) <= targetSize
  THEN << LogEvent("Padded", "ciphertext", Len(data), targetSize) >>
  ELSE << >>

\* padOrTruncateData(data, targetSize): what it logs
PadOrTruncateLog(data, targetSize) ==
  IF Len(data) > targetSize
  THEN << LogEvent("Truncated", "ciphertext", Len(data), targetSize) >>
  ELSE IF Len(data) < targetSize
  THEN << LogEvent("Padded", "ciphertext", Len(data), targetSize) >>
  ELSE << >>

\* which branch of the format detection an input takes
AesFormat(inputData) ==
  IF inputData.user_data # <<>> THEN "string"
  ELSE IF Truthy(inputData.ciphertext) THEN "aes"
  ELSE "invalid"

\* userData as the format branches resolve it
AesUserData(inputData) ==
  IF AesFormat(inputData) = "string" THEN inputData.user_data
  ELSE BufferFromHex(inputData.ciphertext.val)

\* Buffer.writeUInt32LE(value, 0) on Buffer.alloc(4) throws a RangeError
\* outside 0 .. 2^32 - 1
UInt32InRange(n) == n.nan \/ (n.hi >= 0 /\ n.hi <= 65535)

\* counterBytes after writeUInt32LE(aesCounter, 0)
WriteUInt32LE(n) == IF n.nan THEN Zeros(4) ELSE NumToInt32(n)

\* aesCounter as the format branches resolve it
AesCounter(inputData) ==
  IF AesFormat(inputData) = "string"
  THEN IF Truthy(inputData.aes256_counter)
       THEN ParseInt(inputData.aes256_counter) ELSE One
  ELSE IF Truthy(inputData.counter) THEN inputData.counter.num ELSE One

\* generateAES256CircuitInputs(inputData) under the module's CIRCUIT_SIZE;
\* randomKey and randomNonce are what crypto.randomBytes returns when asked
generateAES256CircuitInputs(env, inputData, randomKey, randomNonce) ==
  LET fmt == AesFormat(inputData)
      keyField == IF fmt = "string" THEN inputData.aes256_key ELSE inputData.key
      nonceField == IF fmt = "string" THEN inputData.aes256_nonce ELSE inputData.nonce
  IN
  IF fmt = "invalid" THEN Thrown("Unsupported input format", << >>)
  ELSE IF fmt = "aes" /\ (keyField.kind # "hex" \/ nonceField.kind # "hex")
  THEN \* Buffer.from(undefined, "hex"): a TypeError
       Thrown("TypeError", << >>)
  ELSE
    LET userData == AesUserData(inputData)
        aesKey == IF fmt = "string" /\ ~Truthy(keyField) THEN randomKey
                  ELSE BufferFromHex(keyField.val)
        aesNonce == IF fmt = "string" /\ ~Truthy(nonceField) THEN randomNonce
                    ELSE BufferFromHex(nonceField.val)
        aesCounter == AesCounter(inputData)
        keyBits == convertBytesToBits(aesKey)
        nonceBits == convertBytesToBits(aesNonce)
    IN  IF Len(keyBits) # 256 THEN Thrown("Invalid key size", << >>)
        ELSE IF Len(nonceBits) # 96 THEN Thrown("Invalid nonce size", << >>)
        ELSE IF ~UInt32InRange(aesCounter) THEN Thrown("RangeError", << >>)
        ELSE
          LET counterBits == convertBytesToBits(WriteUInt32LE(aesCounter))
              paddedData == padOrTruncateData(userData, NUM_BYTES(env))
              ciphertextBits == convertBytesToBits(paddedData)
          IN  Returned([key |-> keyBits, nonce |-> nonceBits, counter |-> counterBits,
                        ciphertext |-> ciphertextBits],
                       PadOrTruncateLog(userData, NUM_BYTES(env)))

(***************************************************************************)
(* The word packer of generate_50kb_circuit_inputs.js.                     *)
(***************************************************************************)
\* a call of bytesToBits32(bytes) of generate_50kb_circuit_inputs.js
bytesToBits32Call50KB(bytes) ==
  IF Len(bytes) # 4
  THEN [status |-> "error", error |-> "Expected 4 bytes, got", got |-> Len(bytes), bits |-> << >>]
  ELSE [status |-> "ok", error |-> "", got |-> 0, bits |-> intToBits32(WordLE(bytes))]

(***************************************************************************)
(* The large-payload stream generator: generate_50kb_circuit_inputs.js.    *)
(***************************************************************************)
\* the blocks of the largest circuit variant
LargeBlocks == 800

\* NumBlocks50KB with the first threshold exclusive
NumBlocks50KBExclusive(length) ==
  IF length < 64 THEN 1 ELSE IF length <= 1024 THEN 16 ELSE LargeBlocks

\* numBlocks as chosen from userData.length
NumBlocks50KB(length) ==
  IF length <= 64 THEN 1 ELSE IF length <= 1024 THEN 16 ELSE LargeBlocks

\* circuitType as chosen from userData.length
CircuitType50KB(length) ==
  IF length <= 64 THEN "demo" ELSE IF length <= 1024 THEN "1KB" ELSE "50KB"

\* wordBytes of the key and nonce loops: keyArray.slice(i * 4, (i + 1) * 4),
\* filled with zeros up to 4 entries when shorter
WordBytes50KB(array, i) ==
  LET wordBytes == Slice(array, i * 4, (i + 1) * 4)
  IN  IF Len(wordBytes) < 4 THEN wordBytes \o Zeros(4 - Len(wordBytes)) ELSE wordBytes

\* keyBits (words = 8) and nonceBits (words = 3)
SecretBits50KB(array, words) ==
  ArrayOf([i \in 1..words |-> bytesToBits32Call50KB(WordBytes50KB(array, i - 1)).bits], words)

\* convertBytesToLargeCircuitInput(bytes, numBlocks)
convertBytesToLargeCircuitInput(bytes, numBlocks) ==
  LET totalBytes == numBlocks * 64
      paddedBytes == ArrayOf([i \in 1..totalBytes |->
                                IF i <= Len(bytes) THEN bytes[i] ELSE 0], totalBytes)
      block(blockIdx) ==
        ArrayOf([w \in 1..16 |->
                   bytesToBits32Call50KB(
                     Slice(paddedBytes, blockIdx * 64 + (w - 1) * 4,
                           blockIdx * 64 + (w - 1) * 4 + 4)).bits], 16)
  IN  ArrayOf([b \in 1..numBlocks |-> block(b - 1)], numBlocks)

NoMetadata ==
  [circuitType |-> "", numBlocks |-> 0, originalDataSize |-> 0, paddedDataSize |-> 0]

\* generateChaCha20_50KB_CircuitInputs(inputData): { inputs, metadata } or
\* the thrown error.  Its format detection (lines 73-116) repeats that of
\* generateChaCha20CircuitInputs statement for statement
generateChaCha20_50KB_CircuitInputs(inputData) ==
  IF ChaChaFormat(inputData) = "invalid"
  THEN [status |-> "error",
        error |-> "Invalid input format. Expected string format or ChaCha format.",
        inputs |-> EmptyDoc, metadata |-> NoMetadata]
  ELSE IF inputData.chacha20_nonce.kind # inputData.chacha20_key.kind
  THEN [status |-> "error", error |-> "TypeError", inputs |-> EmptyDoc, metadata |-> NoMetadata]
  ELSE
    LET userData == ChaChaUserData(inputData)
        keyArray == ChaChaKeyArray(inputData)
        nonceArray == ChaChaNonceArray(inputData)
        counter == ChaChaCounter(inputData)
        numBlocks == NumBlocks50KB(Len(userData))
        counterBits == IF counter.nan THEN intToBits32(ToInt32(0))
                       ELSE intToBits32(NumToInt32(counter))
    IN  [status |-> "ok", error |-> "",
         inputs |-> [key |-> SecretBits50KB(keyArray, 8),
                     nonce |-> SecretBits50KB(nonceArray, 3),
                     counter |-> counterBits,
                     ciphertext |-> convertBytesToLargeCircuitInput(userData, numBlocks)],
         metadata |-> [circuitType |-> CircuitType50KB(Len(userData)),
                       numBlocks |-> numBlocks,
                       originalDataSize |-> Len(userData),
                       paddedDataSize |-> numBlocks * 64]]

(***************************************************************************)
(* The explored inputs.                                                    *)
(***************************************************************************)
\* payload bytes: pattern `seed`, n bytes; pattern 0 starts with byte 72 and
\* has bytes >= 128 in the fourth position of words
Payload(seed, n) ==
  ArrayOf([i \in 1..n |-> (seed * 131 + (i - 1) * 37 + 72) % 256], n)

\* Buffer.from("Hello World!", "utf8")
HelloWorld == << 72, 101, 108, 108, 111, 32, 87, 111, 114, 108, 100, 33 >>

\* payload lengths explored with environment value env: around both
\* families' capacities for it, and a few short ones
PayloadLens(env) ==
  {0, 1, 100}
  \cup {c + d : c \in {ChaChaMaxSize(env), NUM_BYTES(env)}, d \in (0 - 1)..MaxOver}

Payloads(env) ==
  {HelloWorld} \cup {Payload(seed, n) : seed \in 0..MaxSeed, n \in PayloadLens(env)}

ShortPayloads ==
  {HelloWorld} \cup {Payload(seed, n) : seed \in 0..MaxSeed, n \in {0, 1, 64, 100}}

\* secret bytes: n bytes, some of them >= 128
SecretBytes(n) == ArrayOf([k \in 1..n |-> (k * 41 + 90) % 256], n)

\* the hex digits of a byte sequence, and the first n of them
HexDigits(bytes) ==
  ArrayOf([n \in 1..(2 * Len(bytes)) |->
             IF n % 2 = 1 THEN bytes[(n + 1) \div 2] \div 16 ELSE bytes[n \div 2] % 16],
          2 * Len(bytes))
HexOfLen(n) == SubSeq(HexDigits(SecretBytes((n + 1) \div 2)), 1, n)

\* an input JSON object; fmt is "hex" (string format, hex secrets), "array"
\* (ChaCha format, byte arrays) or "aes" (AES format, pre-encrypted);
\* kd and nd are the numbers of hex digits of the key and the nonce
MkInput(payload, fmt, kd, nd, ctr) ==
  [ user_data       |-> IF fmt = "aes" THEN << >> ELSE payload,
    chacha20_key    |-> IF fmt = "hex" THEN HexField(HexOfLen(kd))
                        ELSE IF fmt = "array" THEN ArrayField(SecretBytes(kd \div 2))
                        ELSE Absent,
    chacha20_nonce  |-> IF fmt = "hex" THEN HexField(HexOfLen(nd))
                        ELSE IF fmt = "array" THEN ArrayField(SecretBytes(nd \div 2))
                        ELSE Absent,
    chacha20_counter |-> IF fmt = "aes" THEN Absent ELSE ctr,
    aes256_key      |-> IF fmt = "hex" THEN HexField(HexOfLen(kd)) ELSE Absent,
    aes256_nonce    |-> IF fmt = "hex" THEN HexField(HexOfLen(nd)) ELSE Absent,
    aes256_counter  |-> IF fmt = "hex" THEN ctr ELSE Absent,
    ciphertext      |-> IF fmt = "aes" THEN HexField(HexDigits(payload)) ELSE Absent,
    key             |-> IF fmt = "aes" THEN HexField(HexOfLen(kd)) ELSE Absent,
    nonce           |-> IF fmt = "aes" THEN HexField(HexOfLen(nd)) ELSE Absent,
    counter         |-> IF fmt = "aes" THEN ctr ELSE Absent ]

\* the JSON object {} : no field is present
EmptyInput ==
  [ user_data |-> << >>, chacha20_key |-> Absent, chacha20_nonce |-> Absent,
    chacha20_counter |-> Absent, aes256_key |-> Absent, aes256_nonce |-> Absent,
    aes256_counter |-> Absent, ciphertext |-> Absent, key |-> Absent,
    nonce |-> Absent, counter |-> Absent ]

Formats == {"hex", "array", "aes"}
KeyDigits == {64, 0, 62, 63, 66}
NonceDigits == {24, 0, 22, 26}
Counters ==
  { Absent, NumField(One), NumField(Num(0, 0)), StrField(Num(0, 5)),
    NumField(Num(32768, 7)), NumField(Num(65536, 0)), NumField(Num(0 - 1, 65535)) }

\* 32-byte keys: pattern s holds the byte values 32 s .. 32 s + 31, so the
\* patterns 0..7 together hold every byte value; the all-zero, the all-255
\* and the default secret key are added
KeyPattern(s) == ArrayOf([k \in 1..32 |-> 32 * s + (k - 1)], 32)
Keys32 ==
  {KeyPattern(s) : s \in 0..7}
  \cup {Zeros(32), ArrayOf([k \in 1..32 |-> 255], 32), SecretBytes(32)}

\* the input with its key replaced by keyBytes, in the representation
\* (hex string or byte array) each key field already has
WithKey(input, keyBytes) ==
  LET put(f) == IF f.kind = "hex" THEN HexField(HexDigits(keyBytes))
                ELSE IF f.kind = "array" THEN ArrayField(keyBytes)
                ELSE f
  IN  [input EXCEPT !.chacha20_key = put(@), !.aes256_key = put(@), !.key = put(@)]

\* counters over the whole 32-bit range, as numbers and as decimal strings
CountersInRange ==
  { NumField(Num(0, 0)), StrField(Num(0, 0)), NumField(One), StrField(Num(0, 5)),
    NumField(Num(1, 2)), StrField(Num(32768, 0)), NumField(Num(32768, 7)),
    NumField(Num(65535, 65535)), StrField(Num(65535, 65535)) }

\* an input file as the dataset generators write it: user_data and the
\* chacha20_* fields only (generate_10kb_records_data.js,
\* generate_20kb_test_data.js, parse_string_to_chacha.js)
DatasetInput(payload, fmt, ctr) ==
  [MkInput(payload, fmt, 64, 24, ctr) EXCEPT
     !.aes256_key = Absent, !.aes256_nonce = Absent, !.aes256_counter = Absent]

\* further runs: every key of Keys32 in every format, every counter of
\* CountersInRange in every format, and the dataset files
SecretRuns ==
  { [env |-> "64B", inputData |-> WithKey(MkInput(HelloWorld, f, 64, 24, NumField(One)), k)] :
      f \in Formats, k \in Keys32 }
  \cup
  { [env |-> "64B", inputData |-> MkInput(HelloWorld, f, 64, 24, c)] :
      f \in Formats, c \in CountersInRange }
  \cup
  { [env |-> "64B", inputData |-> WithKey(DatasetInput(HelloWorld, f, c), k)] :
      f \in {"hex", "array"}, c \in {NumField(One), StrField(Num(0, 5))},
      k \in {SecretBytes(32), KeyPattern(3)} }

\* array entries outside 0..255, and the positions they are put at
WideEntries == {256, 511, 65536, 0 - 1}
EntryPositions == {1, 2, 4, 5, 12}

\* ChaCha-format inputs one of whose key or nonce entries is not a byte
EntryRuns ==
  { [env |-> "64B",
     inputData |-> [MkInput(HelloWorld, "array", 64, 24, NumField(One)) EXCEPT
                      !.chacha20_key.val[i] = v]] : i \in EntryPositions, v \in WideEntries }
  \cup
  { [env |-> "64B",
     inputData |-> [MkInput(HelloWorld, "array", 64, 24, NumField(One)) EXCEPT
                      !.chacha20_nonce.val[i] = v]] : i \in EntryPositions, v \in WideEntries }

\* the runs explored: every payload with well-formed hex secrets, the short
\* payloads in the two other formats, every shape of the secrets with two
\* short payloads, and the further runs above
Runs ==
  SecretRuns \cup EntryRuns \cup
  UNION { { [env |-> e, inputData |-> MkInput(p, "hex", 64, 24, NumField(One))] :
              p \in Payloads(e) } : e \in EnvValues }
  \cup
  { [env |-> e, inputData |-> MkInput(p, f, 64, 24, NumField(One))] :
      e \in EnvValues, p \in ShortPayloads, f \in {"array", "aes"} }
  \cup
  { [env |-> "64B", inputData |-> MkInput(p, f, kd, nd, c)] :
      p \in {HelloWorld, Payload(0, 100)}, f \in Formats,
      kd \in KeyDigits, nd \in NonceDigits, c \in Counters }

\* what crypto.randomBytes(n) may return
RandomBytes(n) == { Zeros(n), SecretBytes(n) }

(***************************************************************************)
(* State.                                                                  *)
(***************************************************************************)
VARIABLES
  family,     \* which generator script runs: "stream" or "block"
  env,        \* process.env.CIRCUIT_SIZE
  inputData,  \* the parsed input JSON
  pc,         \* "ready" before the generator is called, "done" after
  status,     \* "none", "ok" (a document was returned) or "error" (it threw)
  error,      \* the message of the thrown error
  doc,        \* the returned circuit-input document
  log,        \* the console output of the call
  files,      \* batch run: the input files of the list, in list order
  cursor,     \* batch run: how many files of the list have been processed
  written,    \* batch run: the output file of each input, once written
  results,    \* batch run: the outcome recorded for each processed input
  call,       \* unit call: the function called and its arguments
  ret         \* unit call: what the call returned or threw

vars == << family, env, inputData, pc, status, error, doc, log,
           files, cursor, written, results, call, ret >>

\* the variables of a single generator call, of a batch run and of a unit call
runVars == << inputData, status, error, doc, log >>
batchVars == << files, cursor, written, results >>
callVars == << call, ret >>

\* no generator call, batch run or unit call is in progress
NoCall == [fn |-> "none"]
NoRet == [status |-> "none"]
RunIdle == inputData = EmptyInput /\ status = "none" /\ error = "" /\ doc = EmptyDoc /\ log = << >>
BatchIdle == files = << >> /\ cursor = 0 /\ written = << >> /\ results = << >>
CallIdle == call = NoCall /\ ret = NoRet

Init ==
  /\ family \in {"stream", "block"}
  /\ \E r \in Runs : env = r.env /\ inputData = r.inputData
  /\ pc = "ready"
  /\ status = "none"
  /\ error = ""
  /\ doc = EmptyDoc
  /\ log = << >>
  /\ BatchIdle
  /\ CallIdle

Finish(r) ==
  /\ pc' = "done"
  /\ status' = r.status
  /\ error' = r.error
  /\ doc' = r.doc
  /\ log' = r.log
  /\ UNCHANGED << family, env, inputData >>
  /\ UNCHANGED << batchVars, callVars >>

\* a call of generateChaCha20CircuitInputs(inputData)
RunChaCha20 ==
  /\ pc = "ready"
  /\ family = "stream"
  /\ Finish(generateChaCha20CircuitInputs(env, inputData))

\* a call of generateAES256CircuitInputs(inputData)
RunAES256 ==
  /\ pc = "ready"
  /\ family = "block"
  /\ \E rk \in (IF AesFormat(inputData) = "string" /\ ~Truthy(inputData.aes256_key)
                THEN RandomBytes(32) ELSE {<< >>}),
        rn \in (IF AesFormat(inputData) = "string" /\ ~Truthy(inputData.aes256_nonce)
                THEN RandomBytes(12) ELSE {<< >>}) :
       Finish(generateAES256CircuitInputs(env, inputData, rk, rn))

Next == RunChaCha20 \/ RunAES256

Spec == Init /\ [][Next]_vars

(***************************************************************************)
(* Batch processing: processAllInputFiles of the stream generator and      *)
(* main / processInputFile of the AES generator.                           *)
(***************************************************************************)
\* the input file lists explored have up to MaxFiles entries
MaxFiles == 2

\* a file of generated_data_set: missing, present but not JSON, or a JSON
\* object
MissingFile == [exists |-> FALSE, json |-> FALSE, data |-> EmptyInput]
BadJsonFile == [exists |-> TRUE, json |-> FALSE, data |-> EmptyInput]
JsonFile(d) == [exists |-> TRUE, json |-> TRUE, data |-> d]

\* the file contents explored
BatchInputs ==
  { EmptyInput,
    MkInput(HelloWorld, "hex", 64, 24, NumField(One)),
    MkInput(HelloWorld, "hex", 62, 24, NumField(One)),
    MkInput(<< >>, "hex", 64, 24, NumField(One)),
    DatasetInput(HelloWorld, "hex", StrField(Num(0, 5))),
    MkInput(Payload(0, 100), "array", 64, 24, NumField(One)),
    MkInput(HelloWorld, "aes", 64, 24, NumField(One)) }

BatchFiles == {MissingFile, BadJsonFile} \cup {JsonFile(d) : d \in BatchInputs}

FileLists == UNION { [1..n -> BatchFiles] : n \in 1..MaxFiles }

\* no output file
NoOutput == [exists |-> FALSE, doc |-> EmptyDoc]

\* ChaChaFileOutcome that saves whatever the generator left behind
ChaChaFileOutcomeNoCatch(f, r) ==
  IF ~f.exists
  THEN [outcome |-> "skipped", error |-> "", output |-> NoOutput]
  ELSE [outcome |-> "success", error |-> "", output |-> [exists |-> TRUE, doc |-> r.doc]]

\* one iteration of the loop of processAllInputFiles on file f, r being what
\* generateChaCha20CircuitInputs does with the file's data: a missing file is
\* skipped; JSON.parse or the generator may throw into the catch block;
\* otherwise the returned document is written and success recorded
ChaChaFileOutcome(f, r) ==
  IF ~f.exists
  THEN [outcome |-> "skipped", error |-> "", output |-> NoOutput]
  ELSE IF ~f.json
  THEN [outcome |-> "error", error |-> "SyntaxError", output |-> NoOutput]
  ELSE IF r.status = "error"
  THEN [outcome |-> "error", error |-> r.error, output |-> NoOutput]
  ELSE [outcome |-> "success", error |-> "", output |-> [exists |-> TRUE, doc |-> r.doc]]

\* processInputFile(fileName) on file f, r being what
\* generateAES256CircuitInputs does with the file's data: readFileSync,
\* JSON.parse or the generator may throw into the catch block; otherwise the
\* returned document is written
AesFileOutcome(f, r) ==
  IF ~f.exists
  THEN [outcome |-> "error", error |-> "ENOENT", output |-> NoOutput]
  ELSE IF ~f.json
  THEN [outcome |-> "error", error |-> "SyntaxError", output |-> NoOutput]
  ELSE IF r.status = "error"
  THEN [outcome |-> "error", error |-> r.error, output |-> NoOutput]
  ELSE [outcome |-> "success", error |-> "", output |-> [exists |-> TRUE, doc |-> r.doc]]

BatchInit ==
  /\ family \in {"stream", "block"}
  /\ env = "64B"
  /\ files \in FileLists
  /\ cursor = 0
  /\ written = [i \in 1..Len(files) |-> NoOutput]
  /\ results = << >>
  /\ pc = "ready"
  /\ RunIdle
  /\ CallIdle

\* FileDone that leaves the loop at the first file whose processing threw
FileDoneAbort(o) ==
  /\ cursor' = cursor + 1
  /\ written' = [written EXCEPT ![cursor + 1] = o.output]
  /\ results' = Append(results, [outcome |-> o.outcome, error |-> o.error])
  /\ pc' = IF cursor + 1 = Len(files) \/ o.outcome = "error" THEN "summary" ELSE "ready"
  /\ UNCHANGED << family, env, files >>
  /\ UNCHANGED << runVars, callVars >>

\* the file at the cursor has been processed with outcome o: results[i] is
\* what iteration i left for its file, "skipped" standing for no entry in
\* the results object; after the last file the loop ends and the summary
\* follows
FileDone(o) ==
  /\ cursor' = cursor + 1
  /\ written' = [written EXCEPT ![cursor + 1] = o.output]
  /\ results' = Append(results, [outcome |-> o.outcome, error |-> o.error])
  /\ pc' = IF cursor + 1 = Len(files) THEN "summary" ELSE "ready"
  /\ UNCHANGED << family, env, files >>
  /\ UNCHANGED << runVars, callVars >>

\* one iteration of "for (const filename of inputFiles)" in
\* processAllInputFiles
ProcessChaChaFile ==
  /\ pc = "ready"
  /\ family = "stream"
  /\ cursor < Len(files)
  /\ LET f == files[cursor + 1]
     IN  FileDone(ChaChaFileOutcome(f, generateChaCha20CircuitInputs(env, f.data)))

\* one call of processInputFile by inputFiles.forEach in main
ProcessAesFile ==
  /\ pc = "ready"
  /\ family = "block"
  /\ cursor < Len(files)
  /\ LET f == files[cursor + 1]
         randomKey == IF f.json /\ AesFormat(f.data) = "string" /\ ~Truthy(f.data.aes256_key)
                      THEN RandomBytes(32) ELSE {<< >>}
         randomNonce == IF f.json /\ AesFormat(f.data) = "string" /\ ~Truthy(f.data.aes256_nonce)
                        THEN RandomBytes(12) ELSE {<< >>}
     IN  \E rk \in randomKey, rn \in randomNonce :
           FileDone(AesFileOutcome(f, generateAES256CircuitInputs(env, f.data, rk, rn)))

\* a line of the "=== Summary ===" a script prints: file i of the list is
\* shown as converted to its output file (mark "ok") or as failed with
\* an error message (mark "failed")
SummaryLine(i, mark, msg) == [file |-> i, mark |-> mark, error |-> msg]

\* the summary is printed and the script ends
SummaryDone(lines) ==
  /\ pc' = "done"
  /\ log' = lines
  /\ UNCHANGED << family, env, inputData, status, error, doc >>
  /\ UNCHANGED << batchVars, callVars >>

\* the lines "Object.entries(results).forEach" prints in the main block of
\* the stream generator: one for each entry of results, in insertion order
ChaChaSummaryLines ==
  LET entries == SelectSeq(ArrayOf([i \in 1..Len(results) |-> i], Len(results)),
                           LAMBDA i : results[i].outcome # "skipped")
  IN  ArrayOf([n \in 1..Len(entries) |->
                 IF results[entries[n]].outcome = "success"
                 THEN SummaryLine(entries[n], "ok", "")
                 ELSE SummaryLine(entries[n], "failed", results[entries[n]].error)],
              Len(entries))

\* the lines "inputFiles.forEach" prints in main of the AES generator: one
\* for each file of the list
AesSummaryLines ==
  ArrayOf([i \in 1..Len(files) |-> SummaryLine(i, "ok", "")], Len(files))

\* the summary of the main block of the stream generator
ChaChaSummary ==
  /\ pc = "summary"
  /\ family = "stream"
  /\ SummaryDone(ChaChaSummaryLines)

\* the summary of main of the AES generator
AesSummary ==
  /\ pc = "summary"
  /\ family = "block"
  /\ SummaryDone(AesSummaryLines)

BatchNext == ProcessChaChaFile \/ ProcessAesFile \/ ChaChaSummary \/ AesSummary

BatchSpec == BatchInit /\ [][BatchNext]_vars

(***************************************************************************)
(* The reader of circuit-input documents: verifyCircuitOutputs.            *)
(***************************************************************************)
\* the original dataset file: user_data may be absent, may fail to parse as
\* JSON, and the parsed object may lack "records"; records is their number
OriginalFile(exists, json, hasUserData, userDataJson, hasRecords, records) ==
  [ exists |-> exists, json |-> json, hasUserData |-> hasUserData,
    userDataJson |-> userDataJson, hasRecords |-> hasRecords, records |-> records ]

\* the circuit-input file <dataset>_circuit_inputs.json: present holds the
\* names of the fields the JSON object has
CircuitFile(exists, json, present, d) ==
  [ exists |-> exists, json |-> json, present |-> present, doc |-> d ]

AllFields == {"key", "nonce", "counter", "ciphertext"}

\* a run of the loop body that ended in the catch block
VerifyError(msg, field, out) ==
  [status |-> "error", error |-> msg, field |-> field, log |-> out]

\* the body of the loop of verifyCircuitOutputs for one dataset: both files
\* are read and parsed, lengths are printed, and every step that throws
\* ends in the catch block
verifyCircuitOutputs(original, circuit) ==
  IF ~original.exists THEN VerifyError("ENOENT", "", << >>)
  ELSE IF ~original.json THEN VerifyError("SyntaxError", "", << >>)
  ELSE IF ~circuit.exists THEN VerifyError("ENOENT", "", << >>)
  ELSE IF ~circuit.json THEN VerifyError("SyntaxError", "", << >>)
  ELSE IF ~original.hasUserData THEN VerifyError("TypeError", "user_data", << >>)
  ELSE IF "ciphertext" \notin circuit.present
  THEN VerifyError("TypeError", "ciphertext", << LogEvent("ok", "Original data size", 0, 0) >>)
  ELSE
    LET log1 == << LogEvent("ok", "Original data size", 0, 0),
                   LogEvent("ok", "Circuit ciphertext blocks",
                            Len(circuit.doc.ciphertext), Len(circuit.doc.ciphertext) * 64) >>
    IN  IF ~original.userDataJson THEN VerifyError("SyntaxError", "user_data", log1)
        ELSE IF ~original.hasRecords THEN VerifyError("TypeError", "records", log1)
        ELSE
          LET log2 == log1 \o << LogEvent("ok", "Records count", original.records, 0) >>
          IN  IF "key" \notin circuit.present THEN VerifyError("TypeError", "key", log2)
              ELSE IF "nonce" \notin circuit.present
              THEN VerifyError("TypeError", "nonce",
                               log2 \o << LogEvent("ok", "Key length", Len(circuit.doc.key), 0) >>)
              ELSE [ status |-> "verified", error |-> "", field |-> "",
                     log |-> log2 \o << LogEvent("ok", "Key length", Len(circuit.doc.key), 0),
                                        LogEvent("ok", "Nonce length", Len(circuit.doc.nonce), 0),
                                        LogEvent("ok", "Counter", 0, 0),
                                        LogEvent("ok", "verification complete", 0, 0) >> ]

(***************************************************************************)
(* Fixed-size JSON generators: generate_json.js, generate_multi_json.js.   *)
(* A size is counted in half bytes (size2 = 2 * size), so that target      *)
(* sizes that are not whole numbers are covered; strings are sequences of  *)
(* characters.                                                             *)
(***************************************************************************)
\* '{"amount":'
AmountPrefix == << "{", "\"", "a", "m", "o", "u", "n", "t", "\"", ":" >>

\* ',"placeholder":"'
PlaceholderKey ==
  << ",", "\"", "p", "l", "a", "c", "e", "h", "o", "l", "d", "e", "r", "\"", ":", "\"" >>

\* '"}'
JsonSuffix == << "\"", "}" >>

\* String(n) for an integer n
RECURSIVE DecimalDigits(_)
DecimalDigits(n) ==
  IF n < 0 THEN << "-" >> \o DecimalDigits(0 - n)
  ELSE IF n < 10
  THEN << << "0", "1", "2", "3", "4", "5", "6", "7", "8", "9" >>[n + 1] >>
  ELSE DecimalDigits(n \div 10) \o DecimalDigits(n % 10)

\* Buffer.byteLength of a string of ASCII characters
ByteLength(chars) == Len(chars)

\* chars of generateFiller
Alphabet ==
  << "A", "B", "C", "D", "E", "F", "G", "H", "I", "J", "K", "L", "M",
     "N", "O", "P", "Q", "R", "S", "T", "U", "V", "W", "X", "Y", "Z",
     "a", "b", "c", "d", "e", "f", "g", "h", "i", "j", "k", "l", "m",
     "n", "o", "p", "q", "r", "s", "t", "u", "v", "w", "x", "y", "z",
     "0", "1", "2", "3", "4", "5", "6", "7", "8", "9" >>

\* Math.floor(rng() * n) at the i-th call of rng (i = 1, 2, ...): the value
\* of rng, seeded or Math.random, is not determined here; three streams of
\* indices in 0..61 are explored
Rngs == {"low", "high", "mixed"}
RngIndex(rng, i) ==
  CASE rng = "low" -> 0
    [] rng = "high" -> 61
    [] rng = "mixed" -> (17 * i + 5) % 62

\* generateFiller(length, rng) after `used` earlier calls of rng: the loop
\* "for (i = 0; i < thisChunk; i++)" appends one character for each
\* i < length, that is ceil(length) characters (lengths below the chunk size)
generateFiller(length2, rng, used) ==
  LET count == IF length2 > 0 THEN (length2 + 1) \div 2 ELSE 0
  IN  ArrayOf([i \in 1..count |-> Alphabet[RngIndex(rng, used + i) + 1]], count)

JsonThrown(msg) == [status |-> "error", error |-> msg, jsonString |-> << >>, finalBytes |-> 0]
JsonReturned(str) == [status |-> "ok", error |-> "", jsonString |-> str, finalBytes |-> ByteLength(str)]

\* buildJson of generate_json.js without the final validation of the size
buildJsonUnverified(amount, targetSize2, rng) ==
  LET prefix == AmountPrefix \o DecimalDigits(amount) \o PlaceholderKey
      overhead == ByteLength(prefix) + ByteLength(JsonSuffix)
      fillerBytesNeeded2 == targetSize2 - 2 * overhead
  IN  IF fillerBytesNeeded2 < 0 THEN JsonThrown("Target size is too small")
      ELSE JsonReturned(prefix \o generateFiller(fillerBytesNeeded2, rng, 0) \o JsonSuffix)

\* buildJson(amount, targetSizeBytes, seed) of generate_json.js
buildJson(amount, targetSize2, rng) ==
  LET prefix == AmountPrefix \o DecimalDigits(amount) \o PlaceholderKey
      overhead == ByteLength(prefix) + ByteLength(JsonSuffix)
      fillerBytesNeeded2 == targetSize2 - 2 * overhead
  IN  IF fillerBytesNeeded2 < 0 THEN JsonThrown("Target size is too small")
      ELSE
        LET filler == generateFiller(fillerBytesNeeded2, rng, 0)
            jsonString == prefix \o filler \o JsonSuffix
            finalBytes == ByteLength(jsonString)
        IN  IF 2 * finalBytes # targetSize2 THEN JsonThrown("Size mismatch")
            ELSE JsonReturned(jsonString)

\* prefixes[i] of buildJson of generate_multi_json.js
ObjectPrefix(amt) == AmountPrefix \o DecimalDigits(amt) \o PlaceholderKey

\* overhead of buildJson of generate_multi_json.js: brackets, commas and
\* the prefix and suffix of each object
RECURSIVE PrefixBytes(_, _)
PrefixBytes(amounts, i) ==
  IF i = 0 THEN 0
  ELSE PrefixBytes(amounts, i - 1) + ByteLength(ObjectPrefix(amounts[i])) + ByteLength(JsonSuffix)
MultiOverhead(amounts) ==
  2 + (IF Len(amounts) - 1 > 0 THEN Len(amounts) - 1 ELSE 0) + PrefixBytes(amounts, Len(amounts))

\* fillerLengths of buildJson of generate_multi_json.js: base bytes each,
\* and one more while the remainder is positive
FillerLengths(fillerNeeded2, n) ==
  LET base == fillerNeeded2 \div (2 * n)
      remainder2 == fillerNeeded2 % (2 * n)
  IN  [i \in 1..n |-> base + (IF remainder2 - 2 * (i - 1) > 0 THEN 1 ELSE 0)]

\* the sum of the first i filler lengths
RECURSIVE FillerTotal(_, _)
FillerTotal(lengths, i) == IF i = 0 THEN 0 ELSE FillerTotal(lengths, i - 1) + lengths[i]

\* parts.join("") of the first i objects, after the opening bracket
RECURSIVE JoinObjects(_, _, _, _)
JoinObjects(amounts, lengths, rng, i) ==
  IF i = 0 THEN << >>
  ELSE JoinObjects(amounts, lengths, rng, i - 1)
       \o (IF i > 1 THEN << "," >> ELSE << >>)
       \o ObjectPrefix(amounts[i])
       \o generateFiller(2 * lengths[i], rng, FillerTotal(lengths, i - 1))
       \o JsonSuffix

\* buildJson(amounts, targetBytes, seed) of generate_multi_json.js
buildJsonMulti(amounts, targetBytes2, rng) ==
  LET n == Len(amounts)
  IN  IF n = 0 THEN JsonThrown("No amounts provided.")
      ELSE
        LET fillerNeeded2 == targetBytes2 - 2 * MultiOverhead(amounts)
        IN  IF fillerNeeded2 < 0 THEN JsonThrown("Target size is too small")
            ELSE
              LET fillerLengths == FillerLengths(fillerNeeded2, n)
                  jsonString == << "[" >> \o JoinObjects(amounts, fillerLengths, rng, n) \o << "]" >>
                  finalBytes == ByteLength(jsonString)
              IN  IF 2 * finalBytes # targetBytes2 THEN JsonThrown("Size mismatch after construction")
                  ELSE JsonReturned(jsonString)

(***************************************************************************)
(* The format converter: parse_string_to_chacha.js.                        *)
(***************************************************************************)
\* a base64 string is a sequence of 6-bit values; Base64Pad stands for "="
Base64Pad == 64

\* Buffer.prototype.toString("base64")
Base64Encode(bytes) ==
  LET n == Len(bytes)
      byteAt(i) == IF i <= n THEN bytes[i] ELSE 0
      char(k) ==
        LET g == (k - 1) \div 4
            j == (k - 1) % 4
            b1 == byteAt(3 * g + 1)
            b2 == byteAt(3 * g + 2)
            b3 == byteAt(3 * g + 3)
        IN  CASE j = 0 -> b1 \div 4
              [] j = 1 -> (b1 % 4) * 16 + b2 \div 16
              [] j = 2 -> IF 3 * g + 2 > n THEN Base64Pad ELSE (b2 % 16) * 4 + b3 \div 64
              [] j = 3 -> IF 3 * g + 3 > n THEN Base64Pad ELSE b3 % 64
  IN  ArrayOf([k \in 1..(4 * ((n + 2) \div 3)) |-> char(k)], 4 * ((n + 2) \div 3))

\* Buffer.from(string, "base64"): the characters before the padding, six
\* bits each, cut into whole bytes
Base64Decode(chars) ==
  LET pads == {k \in 1..Len(chars) : chars[k] = Base64Pad}
      m == IF pads = {} THEN Len(chars)
           ELSE (CHOOSE k \in pads : \A h \in pads : k <= h) - 1
      n == (6 * m) \div 8
      byte(i) ==
        LET g == (i - 1) \div 3
            j == (i - 1) % 3
        IN  CASE j = 0 -> chars[4 * g + 1] * 4 + chars[4 * g + 2] \div 16
              [] j = 1 -> (chars[4 * g + 2] % 16) * 16 + chars[4 * g + 3] \div 4
              [] j = 2 -> (chars[4 * g + 3] % 4) * 64 + chars[4 * g + 4]
  IN  ArrayOf([i \in 1..n |-> byte(i)], n)

\* the decimal digit characters and the value of one
DigitChars == << "0", "1", "2", "3", "4", "5", "6", "7", "8", "9" >>
DigitValue(ch) == CHOOSE d \in 0..9 : DigitChars[d + 1] = ch

\* -n, n \div 10 and n % 10 on numbers given by their limbs
NumNegate(n) == IF n.lo = 0 THEN Num(0 - n.hi, 0) ELSE Num(0 - n.hi - 1, 65536 - n.lo)
NumDiv10(n) ==
  LET q == ((n.hi % 10) * 65536 + n.lo) \div 10
  IN  Num(n.hi \div 10 + q \div 65536, q % 65536)
NumMod10(n) == ((n.hi % 10) * 65536 + n.lo) % 10

\* Number.prototype.toString() of an integer
RECURSIVE NumToString(_)
NumToString(n) ==
  IF n.nan THEN << "N", "a", "N" >>
  ELSE IF n.hi < 0 THEN << "-" >> \o NumToString(NumNegate(n))
  ELSE IF n.hi = 0 /\ n.lo < 10 THEN << DigitChars[n.lo + 1] >>
  ELSE NumToString(NumDiv10(n)) \o << DigitChars[NumMod10(n) + 1] >>

\* the value of the first k characters of a string of decimal digits
RECURSIVE ParseDigits(_, _)
ParseDigits(chars, k) ==
  IF k = 0 THEN Num(0, 0)
  ELSE LET p == ParseDigits(chars, k - 1)
           lo10 == p.lo * 10 + DigitValue(chars[k])
       IN  Num(p.hi * 10 + lo10 \div 65536, lo10 % 65536)

\* parseInt(string) on what NumToString writes
ParseIntString(chars) ==
  IF chars = << >> \/ chars[1] = "N" THEN NaN
  ELSE IF chars = << "-" >> THEN NaN
  ELSE IF chars[1] = "-" THEN NumNegate(ParseDigits(Tail(chars), Len(chars) - 1))
  ELSE ParseDigits(chars, Len(chars))

\* keyArray / nonceArray of the converter: the decimal string of each byte of
\* the padded or truncated hex string
HexToDecimalStrings(hex, digits) ==
  LET bytes == HexPairsToBytes(Substring(PadEnd(hex, digits), digits))
  IN  ArrayOf([k \in 1..Len(bytes) |-> NumToString(Num(0, bytes[k]))], Len(bytes))

\* an array of decimal strings as the array field the generators read with
\* .map((x) => parseInt(x))
DecimalStringsField(strings) ==
  ArrayField(ArrayOf([k \in 1..Len(strings) |-> ParseIntString(strings[k]).lo], Len(strings)))

\* parseStringInputsToChacha on the object stringData: the chachaFormat it
\* writes, or the TypeError of undefined.toString().  user_data of the
\* written object is base64 text, held here as the bytes it decodes to
parseStringInputsToChacha(stringData) ==
  IF stringData.chacha20_counter.kind = "absent"
  THEN [status |-> "error", error |-> "TypeError", input |-> EmptyInput]
  ELSE
    LET userDataBase64 == Base64Encode(stringData.user_data)
        keyArray == IF stringData.chacha20_key.kind = "hex"
                    THEN DecimalStringsField(HexToDecimalStrings(stringData.chacha20_key.val, 64))
                    ELSE stringData.chacha20_key
        nonceArray == IF stringData.chacha20_nonce.kind = "hex"
                      THEN DecimalStringsField(HexToDecimalStrings(stringData.chacha20_nonce.val, 24))
                      ELSE stringData.chacha20_nonce
        counter == IF stringData.chacha20_counter.kind = "num"
                   THEN StrField(ParseIntString(NumToString(stringData.chacha20_counter.num)))
                   ELSE stringData.chacha20_counter
    IN  [status |-> "ok", error |-> "",
         input |-> [EmptyInput EXCEPT !.user_data = Base64Decode(userDataBase64),
                                      !.chacha20_key = keyArray,
                                      !.chacha20_nonce = nonceArray,
                                      !.chacha20_counter = counter]]

(***************************************************************************)
(* The EdDSA proof script: generateWorkingProof.                           *)
(***************************************************************************)
\* where step 3 finds the powers of tau: already valid in the build
\* directory, copied from generate_proof or from the main build directory,
\* downloaded by wget or by curl, or nowhere
PtauSources == {"valid", "generate", "main", "wget", "curl", "none"}

\* the promise of generateWorkingProof rejects: the import or
\* eddsaPoseidonExample of step 1 threw outside the try block
ProofRejected ==
  [status |-> "rejected", success |-> FALSE, error |-> "eddsaPoseidonExample",
   witness |-> FALSE, zkey |-> FALSE, proverRan |-> FALSE, proof |-> FALSE,
   verifyRan |-> FALSE]

\* the catch block: { success: false, error: error.message, buildDir }
ProofFailed(msg, witness, zkey) ==
  [status |-> "returned", success |-> FALSE, error |-> msg,
   witness |-> witness, zkey |-> zkey, proverRan |-> FALSE, proof |-> FALSE,
   verifyRan |-> FALSE]

\* generateWorkingProof() in a build directory and toolchain c: which files
\* exist beforehand (wasm, zkey, r1cs, vkey, proofOld: proof.json and
\* public.json of an earlier run), where the powers of tau come from, and
\* which of the steps succeed (inputsOk, calcOk, setupOk, vkeyOk).
\* witness: wtns.calculate wrote witness.wtns; zkey: circuit.zkey exists
\* when step 7 is reached; proverRan: step 7 executed snarkjs groth16 prove;
\* proof: that command wrote proof.json; verifyRan: step 8 ran
generateWorkingProof(c) ==
  IF ~c.inputsOk THEN ProofRejected
  ELSE IF ~c.wasm THEN ProofFailed("Pre-compiled circuit required", FALSE, FALSE)
  ELSE IF ~c.calcOk THEN ProofFailed("wtns.calculate", FALSE, FALSE)
  ELSE IF c.ptau = "none"
  THEN ProofFailed("Powers of tau required for proof generation", TRUE, FALSE)
  ELSE
    LET \* step 5: plonk/groth16 setup when there is no zkey but an r1cs and
        \* the powers of tau; its error is caught and logged
        zkeyPath == c.zkey \/ (c.r1cs /\ c.setupOk)
        \* step 6: export of the verification key; its error is caught
        vkeyPath == c.vkey \/ (zkeyPath /\ c.vkeyOk)
    IN  IF zkeyPath
        THEN \* step 7: fs.existsSync(zkeyPath) && fs.existsSync(witnessPath):
             \* witnessPath is a const of the block of step 2 and is not in
             \* scope here, so evaluating it throws a ReferenceError
             ProofFailed("witnessPath is not defined", TRUE, TRUE)
        ELSE \* step 7 is skipped; step 8 verifies what an earlier run left;
             \* step 9 needs the zkey and is skipped
             [status |-> "returned", success |-> TRUE, error |-> "",
              witness |-> TRUE, zkey |-> FALSE, proverRan |-> FALSE, proof |-> FALSE,
              verifyRan |-> vkeyPath /\ c.proofOld]

(***************************************************************************)
(* The workflow script: chacha20_workflow.js.                              *)
(***************************************************************************)
\* the three test cases of the witness loop
TestCases == << "String Input", "JSON Example", "Text Example" >>

\* the process ended with exit status code
WorkflowExit(code, compiled, generated, attempted, successful, completed) ==
  [status |-> "exit", code |-> code, compiled |-> compiled, generated |-> generated,
   attempted |-> attempted, successfulWitnesses |-> successful, completed |-> completed]

\* a run of the script. The file uses both require() and export: under
\* Node's loaders (loader = "node") it fails when it is loaded, before its
\* first statement; a runtime with CommonJS/ES-module interop
\* (loader = "interop") runs it. c.wasm: chacha20.wasm exists; compileOk,
\* genOk: the circom and the generator command succeed; inputs[i]: the
\* input file of test case i exists; witnessOk[i]: generate_witness.js
\* succeeds on it and leaves the witness file.
\* compiled, generated: the two commands were run; attempted: the test cases
\* whose witness command was run; completed: the last line was printed
chacha20Workflow(c) ==
  IF c.loader = "node"
  THEN WorkflowExit(1, FALSE, FALSE, << >>, << >>, FALSE)
  ELSE IF ~c.wasm /\ ~c.compileOk
  THEN WorkflowExit(1, TRUE, FALSE, << >>, << >>, FALSE)
  ELSE IF ~c.genOk
  THEN WorkflowExit(1, ~c.wasm, TRUE, << >>, << >>, FALSE)
  ELSE
    LET found(i) == c.inputs[i]
        generated(i) == c.inputs[i] /\ c.witnessOk[i]
        indices == ArrayOf([i \in 1..Len(TestCases) |-> i], Len(TestCases))
    IN  WorkflowExit(0, ~c.wasm, TRUE, SelectSeq(indices, found),
                     SelectSeq(indices, generated), TRUE)

(***************************************************************************)
(* Single calls of the word packer, the document reader and the JSON       *)
(* generators.                                                             *)
(***************************************************************************)
\* byte sequences of up to MaxBytes bytes are passed to the word packer
MaxBytes == 5
\* target sizes of up to MaxTargetSize bytes are asked of the JSON generators
MaxTargetSize == 110

WordByteValues == {0, 128, 255}
ByteSeqs == UNION { [1..n -> WordByteValues] : n \in 0..MaxBytes }
WordCalls(fn) == { [fn |-> fn, bytes |-> b] : b \in ByteSeqs }

\* documents the two generators write for "Hello World!"
SampleInput == MkInput(HelloWorld, "hex", 64, 24, NumField(One))
StreamDoc(e) == generateChaCha20CircuitInputs(e, SampleInput).doc
BlockDoc(e) == generateAES256CircuitInputs(e, SampleInput, << >>, << >>).doc

OriginalFiles ==
  { OriginalFile(FALSE, FALSE, FALSE, FALSE, FALSE, 0),
    OriginalFile(TRUE, FALSE, FALSE, FALSE, FALSE, 0),
    OriginalFile(TRUE, TRUE, FALSE, FALSE, FALSE, 0),
    OriginalFile(TRUE, TRUE, TRUE, FALSE, FALSE, 0),
    OriginalFile(TRUE, TRUE, TRUE, TRUE, FALSE, 0),
    OriginalFile(TRUE, TRUE, TRUE, TRUE, TRUE, 0),
    OriginalFile(TRUE, TRUE, TRUE, TRUE, TRUE, 3) }

CircuitFiles ==
  { CircuitFile(FALSE, FALSE, {}, EmptyDoc),
    CircuitFile(TRUE, FALSE, {}, EmptyDoc),
    CircuitFile(TRUE, TRUE, AllFields, StreamDoc("10KB")),
    CircuitFile(TRUE, TRUE, AllFields, StreamDoc("1KB")),
    CircuitFile(TRUE, TRUE, AllFields, StreamDoc("64B")),
    CircuitFile(TRUE, TRUE, AllFields, BlockDoc("64B")),
    CircuitFile(TRUE, TRUE, AllFields, [StreamDoc("64B") EXCEPT !.key = SubSeq(@, 1, 7)]),
    CircuitFile(TRUE, TRUE, AllFields \ {"key"}, [StreamDoc("64B") EXCEPT !.key = << >>]),
    CircuitFile(TRUE, TRUE, AllFields \ {"nonce"}, [StreamDoc("64B") EXCEPT !.nonce = << >>]),
    CircuitFile(TRUE, TRUE, AllFields \ {"ciphertext"},
                [StreamDoc("64B") EXCEPT !.ciphertext = << >>]) }

VerifyCalls ==
  { [fn |-> "verifyCircuitOutputs", original |-> o, circuit |-> c] :
      o \in OriginalFiles, c \in CircuitFiles }

Amounts == {0, 7, 100, 250, 12345, 0 - 5}
AmountLists == { << >>, << 100 >>, << 7, 250 >>, << 0, 100, 12345 >> }
TargetSizes2 == 1..(2 * MaxTargetSize)

JsonCalls ==
  { [fn |-> "buildJson", amount |-> a, targetSize2 |-> t, rng |-> r] :
      a \in Amounts, t \in TargetSizes2, r \in Rngs }
JsonMultiCalls ==
  { [fn |-> "buildJsonMulti", amounts |-> a, targetSize2 |-> t, rng |-> r] :
      a \in AmountLists, t \in TargetSizes2, r \in Rngs }

\* inputs of the large-payload generator: payload lengths around the
\* thresholds of its three circuit variants, up to MaxOver bytes beyond the
\* largest, in string format and in ChaCha format with short and long keys
LargePayloadLens ==
  {1, 12} \cup {c + d : c \in {64, 1024, LargeBlocks * 64}, d \in 0..MaxOver}
LargeCalls ==
  { [fn |-> "generateChaCha20_50KB", inputData |-> MkInput(Payload(1, n), "hex", 64, 24, NumField(One))] :
      n \in LargePayloadLens }
  \cup
  { [fn |-> "generateChaCha20_50KB", inputData |-> MkInput(p, f, kd, 24, StrField(Num(0, 5)))] :
      p \in {<< >>, HelloWorld, Payload(0, 65)}, f \in {"hex", "array"}, kd \in KeyDigits }

\* every build directory and toolchain of generateWorkingProof
ProofCalls ==
  [fn : {"generateWorkingProof"}, inputsOk : BOOLEAN, wasm : BOOLEAN, calcOk : BOOLEAN,
   ptau : PtauSources, zkey : BOOLEAN, r1cs : BOOLEAN, setupOk : BOOLEAN,
   vkey : BOOLEAN, vkeyOk : BOOLEAN, proofOld : BOOLEAN]

\* every environment of the workflow script
WorkflowCalls ==
  [fn : {"chacha20_workflow"}, loader : {"node", "interop"}, wasm : BOOLEAN,
   compileOk : BOOLEAN, genOk : BOOLEAN,
   inputs : [1..Len(TestCases) -> BOOLEAN], witnessOk : [1..Len(TestCases) -> BOOLEAN]]

UnitInit ==
  /\ family = "stream"
  /\ env = Unset
  /\ pc = "ready"
  /\ RunIdle
  /\ BatchIdle
  /\ ret = NoRet
  /\ \/ call \in WordCalls("bytesToBits32")
     \/ call \in WordCalls("bytesToBits32_50kb")
     \/ call \in VerifyCalls
     \/ call \in JsonCalls
     \/ call \in JsonMultiCalls
     \/ call \in ProofCalls
     \/ call \in LargeCalls
     \/ call \in WorkflowCalls

\* the call ends with result r
CallDone(r) ==
  /\ ret' = r
  /\ pc' = "done"
  /\ UNCHANGED << family, env, call >>
  /\ UNCHANGED << runVars, batchVars >>

\* bytesToBits32(bytes) of generate_chacha20_circuit_inputs.js
CallBytesToBits32 ==
  /\ pc = "ready" /\ call.fn = "bytesToBits32"
  /\ CallDone(bytesToBits32Call(call.bytes))

\* bytesToBits32(bytes) of generate_50kb_circuit_inputs.js
CallBytesToBits32Of50KB ==
  /\ pc = "ready" /\ call.fn = "bytesToBits32_50kb"
  /\ CallDone(bytesToBits32Call50KB(call.bytes))

\* verifyCircuitOutputs on one dataset
CallVerifyCircuitOutputs ==
  /\ pc = "ready" /\ call.fn = "verifyCircuitOutputs"
  /\ CallDone(verifyCircuitOutputs(call.original, call.circuit))

\* buildJson(amount, targetSizeBytes, seed) of generate_json.js
CallBuildJson ==
  /\ pc = "ready" /\ call.fn = "buildJson"
  /\ CallDone(buildJson(call.amount, call.targetSize2, call.rng))

\* buildJson(amounts, targetBytes, seed) of generate_multi_json.js
CallBuildJsonMulti ==
  /\ pc = "ready" /\ call.fn = "buildJsonMulti"
  /\ CallDone(buildJsonMulti(call.amounts, call.targetSize2, call.rng))

\* generateWorkingProof() of the EdDSA proof script
CallGenerateWorkingProof ==
  /\ pc = "ready" /\ call.fn = "generateWorkingProof"
  /\ CallDone(generateWorkingProof(call))

\* one run of chacha20_workflow.js
RunChaCha20Workflow ==
  /\ pc = "ready" /\ call.fn = "chacha20_workflow"
  /\ CallDone(chacha20Workflow(call))

\* generateChaCha20_50KB_CircuitInputs(inputData)
CallGenerateChaCha20Of50KB ==
  /\ pc = "ready" /\ call.fn = "generateChaCha20_50KB"
  /\ CallDone(generateChaCha20_50KB_CircuitInputs(call.inputData))

UnitNext ==
  \/ CallGenerateChaCha20Of50KB
  \/ CallGenerateWorkingProof
  \/ RunChaCha20Workflow
  \/ CallBytesToBits32
  \/ CallBytesToBits32Of50KB
  \/ CallVerifyCircuitOutputs
  \/ CallBuildJson
  \/ CallBuildJsonMulti

UnitSpec == UnitInit /\ [][UnitNext]_vars

(***************************************************************************)
(* Properties.                                                             *)
(***************************************************************************)
Done == pc = "done"
Emitted == pc = "done" /\ status = "ok"

\* the payload bytes the generator resolved from the input
UserData == IF family = "stream" THEN ChaChaUserData(inputData) ELSE AesUserData(inputData)

\* the byte capacity and block count the running generator is configured with
Capacity == IF family = "stream" THEN ChaChaMaxSize(env) ELSE NUM_BYTES(env)

\* p cut to its first n bytes, or followed by zero bytes up to n
PaddedPayload(p, n) == ArrayOf([i \in 1..n |-> IF i <= Len(p) THEN p[i] ELSE 0], n)

\* bit i (0 = least significant) of byte x
BitOf(x, i) == (x \div Pow2(i)) % 2

\* C1: in every document the stream generator returns, the ciphertext has
\* NUM_BLOCKS blocks of 16 words of 32 bits, and bit i of word w of block b
\* is bit (i mod 8) of byte 64b + 4w + floor(i / 8) of the payload padded or
\* cut to NUM_BLOCKS * 64 bytes.
C1_StreamLayout ==
  (Emitted /\ family = "stream") =>
    LET nb == NUM_BLOCKS(env)
        padded == PaddedPayload(UserData, nb * 64)
    IN  /\ Len(doc.ciphertext) = nb
        /\ \A b \in 0..(nb - 1) :
             /\ Len(doc.ciphertext[b + 1]) = 16
             /\ \A w \in 0..15 :
                  /\ Len(doc.ciphertext[b + 1][w + 1]) = 32
                  /\ \A i \in 0..31 :
                       doc.ciphertext[b + 1][w + 1][i + 1]
                         = BitOf(padded[64 * b + 4 * w + (i \div 8) + 1], i % 8)

\* C1 witness: a 10KB document whose first word has a fourth byte >= 128,
\* which sets the word's bit 31, and whose last block holds payload bytes
C1_Witness ==
  /\ Emitted /\ family = "stream" /\ env = "10KB"
  /\ Len(UserData) >= 10240
  /\ UserData[4] >= 128
  /\ doc.ciphertext[1][1][32] = 1
  /\ UserData[10240] = 35
  /\ doc.ciphertext[160][16][25] = 1

\* C2: in every document the block-cipher generator returns, the ciphertext
\* is flat, has 8 * NUM_BYTES bits, and bit 8k + j is bit (7 - j) of byte k of
\* the payload padded or cut to NUM_BYTES bytes; a payload that starts with
\* byte 72 gives the first eight bits 0,1,0,0,1,0,0,0.
C2_BlockLayout ==
  (Emitted /\ family = "block") =>
    LET n == NUM_BYTES(env)
        padded == PaddedPayload(UserData, n)
    IN  /\ Len(doc.ciphertext) = 8 * n
        /\ \A k \in 0..(n - 1) : \A j \in 0..7 :
             doc.ciphertext[8 * k + j + 1] = BitOf(padded[k + 1], 7 - j)
        /\ (Len(UserData) > 0 /\ UserData[1] = 72)
             => SubSeq(doc.ciphertext, 1, 8) = << 0, 1, 0, 0, 1, 0, 0, 0 >>

\* C2 witness: the 64B document of "Hello World!", whose 512 ciphertext bits
\* start with those of byte 72 and end with padding
C2_Witness ==
  /\ Emitted /\ family = "block" /\ env = "64B"
  /\ UserData = HelloWorld
  /\ SubSeq(doc.ciphertext, 1, 8) = << 0, 1, 0, 0, 1, 0, 0, 0 >>
  /\ Len(doc.ciphertext) = 512
  /\ doc.ciphertext[512] = 0

\* the payload the input carries, before any format detection
InputPayload ==
  IF family = "block" /\ Truthy(inputData.ciphertext)
  THEN BufferFromHex(inputData.ciphertext.val)
  ELSE inputData.user_data

\* the key and nonce fields the running generator reads
KeyField ==
  IF family = "stream" THEN inputData.chacha20_key
  ELSE IF Truthy(inputData.ciphertext) THEN inputData.key ELSE inputData.aes256_key
NonceField ==
  IF family = "stream" THEN inputData.chacha20_nonce
  ELSE IF Truthy(inputData.ciphertext) THEN inputData.nonce ELSE inputData.aes256_nonce
CounterField ==
  IF family = "stream" THEN inputData.chacha20_counter
  ELSE IF Truthy(inputData.ciphertext) THEN inputData.counter ELSE inputData.aes256_counter

\* a given hex string or byte array resolves to exactly n bytes
Given(f) == f.kind \in {"hex", "array"}
ResolvesTo(f, n) == IF f.kind = "hex" THEN Len(f.val) = 2 * n ELSE Len(f.val) = n

\* C3: a run whose key is given and does not resolve to 32 bytes, or whose
\* nonce is given and does not resolve to 12 bytes, ends in an error and
\* returns no document.
C3_BadSecretRejected ==
  (Done /\ ( (Given(KeyField) /\ ~ResolvesTo(KeyField, 32))
             \/ (Given(NonceField) /\ ~ResolvesTo(NonceField, 12)) ))
    => (status = "error" /\ doc = EmptyDoc)

\* the bytes a stream ciphertext decodes to (little-endian words, LSB first)
DecodeStream(ct) ==
  ArrayOf([n \in 1..(64 * Len(ct)) |->
             LET b == (n - 1) \div 64
                 w == ((n - 1) % 64) \div 4
                 k == (n - 1) % 4
                 word == ct[b + 1][w + 1]
             IN  word[8 * k + 1] + 2 * word[8 * k + 2] + 4 * word[8 * k + 3]
                 + 8 * word[8 * k + 4] + 16 * word[8 * k + 5] + 32 * word[8 * k + 6]
                 + 64 * word[8 * k + 7] + 128 * word[8 * k + 8]],
          64 * Len(ct))

\* the bytes a block-cipher ciphertext decodes to (MSB first per byte)
DecodeBlock(ct) ==
  ArrayOf([n \in 1..(Len(ct) \div 8) |->
             LET o == 8 * (n - 1)
             IN  128 * ct[o + 1] + 64 * ct[o + 2] + 32 * ct[o + 3] + 16 * ct[o + 4]
                 + 8 * ct[o + 5] + 4 * ct[o + 6] + 2 * ct[o + 7] + ct[o + 8]],
          Len(ct) \div 8)

Decoded == IF family = "stream" THEN DecodeStream(doc.ciphertext) ELSE DecodeBlock(doc.ciphertext)

\* the secrets and the counter are well formed: the key, when given, has 32
\* bytes, the nonce 12, both in the same representation, and the counter is
\* a 4-byte unsigned integer
WellFormedSecrets ==
  /\ Given(KeyField) => ResolvesTo(KeyField, 32)
  /\ Given(NonceField) => ResolvesTo(NonceField, 12)
  /\ KeyField.kind = NonceField.kind
  /\ family = "stream" => Given(KeyField)
  /\ CounterField.num.hi \in 0..65535

\* C4: with well-formed secrets, every payload p of at most Capacity bytes,
\* the empty one included, is encoded, and its ciphertext decodes to p
\* followed by Capacity - Len(p) zero bytes.
C4_PaddingRoundTrip ==
  (Done /\ WellFormedSecrets /\ Len(InputPayload) <= Capacity)
    => /\ status = "ok"
       /\ Decoded = InputPayload \o Zeros(Capacity - Len(InputPayload))

HasEvent(kind, a, b) ==
  \E n \in 1..Len(log) :
    log[n].kind = kind /\ log[n].about = "ciphertext" /\ log[n].a = a /\ log[n].b = b

\* C5: every returned document of a payload longer than Capacity encodes the
\* first Capacity bytes of it, and the run logged a Truncated warning with
\* the payload's length and the capacity.
C5_TruncationWarned ==
  (Emitted /\ Len(UserData) > Capacity)
    => /\ Decoded = SubSeq(UserData, 1, Capacity)
       /\ HasEvent("Truncated", Len(UserData), Capacity)

\* C6: every returned document of a payload of exactly Capacity bytes decodes
\* to the payload, and the run logged no padding or truncation notice about
\* the payload.
C6_ExactSizeNoOp ==
  (Emitted /\ Len(UserData) = Capacity)
    => /\ Decoded = UserData
       /\ \A n \in 1..Len(log) :
            ~(log[n].about = "ciphertext" /\ log[n].kind \in {"Padded", "Truncated", "Warning"})

\* C6 witness: a payload of exactly 10240 bytes encoded by the stream
\* generator configured for 10KB
C6_Witness ==
  /\ Emitted /\ family = "stream" /\ env = "10KB"
  /\ Len(UserData) = 10240 /\ Capacity = 10240
  /\ Decoded = UserData

\* the size profiles each family supports
Registered == IF family = "stream" THEN {"64B", "1KB", "10KB"} ELSE {"64B", "1KB", "10KB", "20KB"}

\* C7: a run whose CIRCUIT_SIZE is set to a value that is not a supported
\* profile of the family ends in an error and returns no document.
C7_UnknownProfileRejected ==
  (Done /\ env # Unset /\ env \notin Registered) => (status = "error" /\ doc = EmptyDoc)

\* the byte capacity each profile name stands for
ProfileBytes(name) ==
  CASE name = "64B" -> 64
    [] name = "1KB" -> 1024
    [] name = "10KB" -> 10240
    [] name = "20KB" -> 20480

\* the sum of the lengths of the sequences seqs[lo..hi]
RECURSIVE SumLen(_, _, _)
SumLen(seqs, lo, hi) ==
  IF lo > hi THEN 0
  ELSE IF lo = hi THEN Len(seqs[lo])
  ELSE SumLen(seqs, lo, (lo + hi) \div 2) + SumLen(seqs, ((lo + hi) \div 2) + 1, hi)

\* the sum of the numbers of bits of the blocks[lo..hi]
RECURSIVE SumLen2(_, _, _)
SumLen2(blocks, lo, hi) ==
  IF lo > hi THEN 0
  ELSE IF lo = hi THEN SumLen(blocks[lo], 1, Len(blocks[lo]))
  ELSE SumLen2(blocks, lo, (lo + hi) \div 2) + SumLen2(blocks, ((lo + hi) \div 2) + 1, hi)

\* the number of bits of the flattened ciphertext
FlatLen ==
  IF family = "stream" THEN SumLen2(doc.ciphertext, 1, Len(doc.ciphertext))
  ELSE Len(doc.ciphertext)

\* C8: for both families and CIRCUIT_SIZE 64B, 1KB, 10KB and 20KB, every
\* returned document's flattened ciphertext has 8 times the profile's bytes:
\* 512, 8192, 81920 and 163840 bits.
C8_ShapeInvariant ==
  (Emitted /\ env \in {"64B", "1KB", "10KB", "20KB"}) => FlatLen = 8 * ProfileBytes(env)

IsBits(s) == \A n \in 1..Len(s) : s[n] \in {0, 1}
IsWords(s, nWords) ==
  /\ Len(s) = nWords
  /\ \A w \in 1..nWords : Len(s[w]) = 32 /\ IsBits(s[w])

\* C9: every returned document has its family's field shapes -- stream: key
\* 8 x 32, nonce 3 x 32, counter 32, ciphertext NUM_BLOCKS x 16 x 32; block
\* cipher: key 256, nonce 96, counter 32, ciphertext 8 * NUM_BYTES -- and
\* every leaf is 0 or 1.
C9_FieldShapes ==
  Emitted =>
    IF family = "stream"
    THEN /\ IsWords(doc.key, 8)
         /\ IsWords(doc.nonce, 3)
         /\ Len(doc.counter) = 32 /\ IsBits(doc.counter)
         /\ Len(doc.ciphertext) = NUM_BLOCKS(env)
         /\ \A b \in 1..Len(doc.ciphertext) : IsWords(doc.ciphertext[b], 16)
    ELSE /\ Len(doc.key) = 256 /\ IsBits(doc.key)
         /\ Len(doc.nonce) = 96 /\ IsBits(doc.nonce)
         /\ Len(doc.counter) = 32 /\ IsBits(doc.counter)
         /\ Len(doc.ciphertext) = 8 * NUM_BYTES(env) /\ IsBits(doc.ciphertext)

\* C9 witness: the stream generator returned a document for a byte-array key
\* of 31 bytes and a payload longer than the capacity
C9_Witness ==
  /\ Emitted /\ family = "stream"
  /\ inputData.chacha20_key.kind = "array" /\ Len(inputData.chacha20_key.val) = 31
  /\ Len(UserData) > Capacity
  /\ Len(doc.key) = 8

\* the dimensions of the ciphertext of a stream document, outermost first
CiphertextDims ==
  << Len(doc.ciphertext), Len(doc.ciphertext[1]), Len(doc.ciphertext[1][1]) >>

\* C10: for each size that has a circuit template, the ciphertext of a
\* returned stream document has the dimensions the template declares for
\* its ciphertext input.
C10_MatchesCircuit ==
  (Emitted /\ family = "stream" /\ ChaChaCircuitSize(env) \in {"64B", "1KB", "10KB"})
    => CiphertextDims = DeclaredCiphertextDims(ChaChaCircuitSize(env))

\* the bytes a sequence of 32-bit words decodes to (little-endian words,
\* LSB-first bits)
DecodeWords(words) ==
  ArrayOf([n \in 1..(4 * Len(words)) |->
             LET word == words[((n - 1) \div 4) + 1]
                 k == (n - 1) % 4
             IN  word[8 * k + 1] + 2 * word[8 * k + 2] + 4 * word[8 * k + 3]
                 + 8 * word[8 * k + 4] + 16 * word[8 * k + 5] + 32 * word[8 * k + 6]
                 + 64 * word[8 * k + 7] + 128 * word[8 * k + 8]],
          4 * Len(words))

\* the key bytes the key field of the document decodes to under the
\* family's convention
DecodedKey == IF family = "stream" THEN DecodeWords(doc.key) ELSE DecodeBlock(doc.key)

\* the input gives the key k, as a hex string or as a byte array
KeyGivenAs(k) == KeyField = HexField(HexDigits(k)) \/ KeyField = ArrayField(k)

\* the key field the family's encoder makes of the key bytes k
EncodedKey(k) ==
  IF family = "stream" THEN convertBytesToCircuitInput(k, 8) ELSE convertBytesToBits(k)

\* C11: in every returned document of an input that gives the 32-byte key k,
\* in both families, the key field decodes back to exactly k under the
\* family's convention, and no other key of the key set encodes to the same
\* key field.
C11_KeyRoundTrip ==
  Emitted =>
    \A k \in Keys32 :
      KeyGivenAs(k) =>
        /\ DecodedKey = k
        /\ \A k2 \in Keys32 : k2 # k => EncodedKey(k2) # doc.key

\* C11 witness: both families returned a document for the key that holds
\* the byte values 224..255, given as a hex string
C11_Witness ==
  /\ Emitted
  /\ KeyField = HexField(HexDigits(KeyPattern(7)))
  /\ DecodedKey[32] = 255
  /\ DecodedKey = KeyPattern(7)

\* the counter value the input supplies lies in 0 .. 2^32 - 1
CounterSupplied ==
  /\ CounterField.kind \in {"num", "str"}
  /\ ~CounterField.num.nan
  /\ CounterField.num.hi \in 0..65535
  /\ CounterField.num.lo \in 0..65535

\* bit i (0..31) of the supplied counter value
CounterBit(i) ==
  IF i < 16 THEN BitOf(CounterField.num.lo, i) ELSE BitOf(CounterField.num.hi, i - 16)

\* C12: in every document the stream generator returns for an input that
\* supplies the counter value c in 0 .. 2^32 - 1 (number or decimal string,
\* string format or ChaCha format), counter[i] is bit i of c for i in 0..31;
\* c = 0 gives 32 zero bits.
C12_StreamCounter ==
  (Emitted /\ family = "stream" /\ CounterSupplied)
    => /\ Len(doc.counter) = 32
       /\ \A i \in 0..31 : doc.counter[i + 1] = CounterBit(i)

\* C13: in every document the block-cipher generator returns for an input
\* that supplies the counter value c in 0 .. 2^32 - 1 (c = 0 included), the
\* 32 counter bits are the four little-endian bytes of c, each expanded
\* MSB first.
C13_BlockCounter ==
  (Emitted /\ family = "block" /\ CounterSupplied)
    => /\ Len(doc.counter) = 32
       /\ \A j \in 0..3 : \A m \in 0..7 :
            doc.counter[8 * j + m + 1] = CounterBit(8 * j + (7 - m))

\* what the stream generator makes of the same input file
StreamResult == generateChaCha20CircuitInputs(env, inputData)

\* C16: when the block-cipher generator and the stream generator both return
\* a document for the same input file, the key, nonce and counter bytes the
\* two documents encode are equal.
C16_SameSecrets ==
  (Emitted /\ family = "block" /\ StreamResult.status = "ok")
    => /\ DecodeBlock(doc.key) = DecodeWords(StreamResult.doc.key)
       /\ DecodeBlock(doc.nonce) = DecodeWords(StreamResult.doc.nonce)
       /\ DecodeBlock(doc.counter) = DecodeWords(<< StreamResult.doc.counter >>)

\* C17: for every value of CIRCUIT_SIZE the stream capacity MAX_SIZE is
\* NUM_BLOCKS * 64 (64B: 1 block, 1KB: 16, 10KB: 160), the block-cipher
\* NUM_BYTES equals its MAX_SIZE, and a returned stream document has
\* MAX_SIZE / 64 blocks.
C17_RegistryConsistent ==
  /\ ChaChaMaxSize(env) = NUM_BLOCKS(env) * BLOCK_SIZE
  /\ ChaChaMaxSize(env) % BLOCK_SIZE = 0
  /\ ChaChaCircuitSize(env) = "64B" => NUM_BLOCKS(env) = 1
  /\ ChaChaCircuitSize(env) = "1KB" => NUM_BLOCKS(env) = 16
  /\ ChaChaCircuitSize(env) = "10KB" => NUM_BLOCKS(env) = 160
  /\ NUM_BYTES(env) = AesMaxSize(env)
  /\ (Emitted /\ family = "stream") => Len(doc.ciphertext) * BLOCK_SIZE = ChaChaMaxSize(env)

\* C17 witness: the stream generator configured for 10KB returned a document
\* for a one-byte payload
C17_Witness ==
  /\ Emitted /\ family = "stream" /\ env = "10KB"
  /\ Len(UserData) = 1
  /\ Len(doc.ciphertext) = 160

\* encoding the data of file i throws, whatever crypto.randomBytes returns
EncodingThrows(i) ==
  IF family = "stream"
  THEN generateChaCha20CircuitInputs(env, files[i].data).status = "error"
  ELSE \A rk \in RandomBytes(32), rn \in RandomBytes(12) :
         generateAES256CircuitInputs(env, files[i].data, rk, rn).status = "error"

\* d has every field of its family's document, in full
CompleteDocument(d) ==
  IF family = "stream"
  THEN /\ IsWords(d.key, 8) /\ IsWords(d.nonce, 3)
       /\ Len(d.counter) = 32 /\ IsBits(d.counter)
       /\ Len(d.ciphertext) = NUM_BLOCKS(env)
       /\ \A b \in 1..Len(d.ciphertext) : IsWords(d.ciphertext[b], 16)
  ELSE /\ Len(d.key) = 256 /\ IsBits(d.key)
       /\ Len(d.nonce) = 96 /\ IsBits(d.nonce)
       /\ Len(d.counter) = 32 /\ IsBits(d.counter)
       /\ Len(d.ciphertext) = 8 * NUM_BYTES(env) /\ IsBits(d.ciphertext)

\* C14: at every point of a batch run, in both families, an output file
\* exists only for an input that has been processed, was read and parsed,
\* and whose encoding did not throw, and it holds a complete document; an
\* input whose reading or encoding threw has no output file and no success
\* recorded.
C14_NoPartialDocuments ==
  \A i \in 1..Len(files) :
    /\ written[i].exists =>
         /\ i <= cursor
         /\ files[i].exists /\ files[i].json
         /\ ~EncodingThrows(i)
         /\ CompleteDocument(written[i].doc)
         /\ results[i].outcome = "success"
    /\ (i <= cursor /\ (~files[i].exists \/ ~files[i].json \/ EncodingThrows(i))) =>
         /\ ~written[i].exists
         /\ results[i].outcome # "success"

\* C14 witness: a finished batch of two files: the encoding of the first
\* threw and left no output, the second was written
C14_Witness ==
  /\ pc = "done" /\ cursor = 2
  /\ files[1].json /\ EncodingThrows(1)
  /\ results[1].outcome = "error" /\ ~written[1].exists
  /\ results[2].outcome = "success" /\ written[2].exists

\* C15: two input files of a batch with the same contents, both encoded
\* under the same CIRCUIT_SIZE, get identical documents.
C15_EncodingPure ==
  \A i, j \in 1..cursor :
    (files[i] = files[j] /\ written[i].exists /\ written[j].exists)
      => written[i].doc = written[j].doc

\* the document d has exactly the fields and array lengths of a stream
\* document of the given number of blocks
StreamShaped(c, blocks) ==
  /\ c.present = AllFields
  /\ IsWords(c.doc.key, 8)
  /\ IsWords(c.doc.nonce, 3)
  /\ Len(c.doc.counter) = 32
  /\ Len(c.doc.ciphertext) = blocks
  /\ \A b \in 1..blocks : IsWords(c.doc.ciphertext[b], 16)

\* the original dataset file of the call can be read in full
OriginalReadable ==
  /\ call.original.exists /\ call.original.json /\ call.original.hasUserData
  /\ call.original.userDataJson /\ call.original.hasRecords

\* C18: when verifyCircuitOutputs reads a circuit-input file whose fields do
\* not have exactly the array lengths of a stream document of the 10KB
\* profile (160 blocks), it ends in an error that names a field of the
\* document; it never reports the document as verified.
C18_ShapeChecked ==
  (pc = "done" /\ call.fn = "verifyCircuitOutputs" /\ OriginalReadable
   /\ call.circuit.exists /\ call.circuit.json /\ ~StreamShaped(call.circuit, 160))
    => (ret.status = "error" /\ ret.field \in AllFields)

\* C19: a call of bytesToBits32, of either script, with a byte sequence
\* whose length is not 4 throws the error "Expected 4 bytes, got <length>"
\* and returns no bits.
C19_WordPackerRejects ==
  (pc = "done" /\ call.fn \in {"bytesToBits32", "bytesToBits32_50kb"} /\ Len(call.bytes) # 4)
    => (ret.status = "error" /\ ret.bits = << >> /\ ret.got = Len(call.bytes))

\* C19 witness: bytesToBits32 of generate_chacha20_circuit_inputs.js threw
\* for five bytes
C19_Witness ==
  /\ pc = "done" /\ call.fn = "bytesToBits32"
  /\ Len(call.bytes) = 5 /\ call.bytes[5] = 255
  /\ ret.status = "error" /\ ret.got = 5

\* C20: a call of buildJson, of either script, either returns a string whose
\* byte length is exactly the target size, or throws and returns no string.
C20_ExactSizeOrThrow ==
  (pc = "done" /\ call.fn \in {"buildJson", "buildJsonMulti"})
    => \/ ret.status = "error" /\ ret.jsonString = << >>
       \/ /\ ret.status = "ok"
          /\ 2 * ByteLength(ret.jsonString) = call.targetSize2
          /\ ret.finalBytes = ByteLength(ret.jsonString)

\* C20 witness: three objects in 110 bytes, 13 of them filler spread 5, 4, 4
C20_Witness ==
  /\ pc = "done" /\ call.fn = "buildJsonMulti"
  /\ call.amounts = << 0, 100, 12345 >> /\ call.targetSize2 = 220
  /\ ret.status = "ok" /\ Len(ret.jsonString) = 110
  /\ ret.jsonString[1] = "[" /\ ret.jsonString[110] = "]"

\* the document the stream generator returns under CIRCUIT_SIZE e for the
\* input with its payload replaced by p
WithPayload(e, p) == generateChaCha20CircuitInputs(e, [inputData EXCEPT !.user_data = p])

\* C21: the stream generator increments no counter: a returned document has
\* the four fields key, nonce, counter and ciphertext, the counter is one
\* word of 32 bits, and the same input with another payload (shorter, or
\* filling more than one block) under another number of blocks gets the same
\* key, nonce and counter fields.
C21_NoImplicitIncrement ==
  (Emitted /\ family = "stream") =>
    /\ DOMAIN doc = {"key", "nonce", "counter", "ciphertext"}
    /\ Len(doc.counter) = 32 /\ IsBits(doc.counter)
    /\ \A e \in {"64B", "1KB"} :
         \A p \in {HelloWorld, Payload(0, 65), Payload(1, 100)} :
           /\ WithPayload(e, p).status = "ok"
           /\ WithPayload(e, p).doc.key = doc.key
           /\ WithPayload(e, p).doc.nonce = doc.nonce
           /\ WithPayload(e, p).doc.counter = doc.counter

\* C21 witness: a document of 16 blocks for a payload of more than one block
\* and the counter 1
C21_Witness ==
  /\ Emitted /\ family = "stream"
  /\ env = "1KB" /\ Len(UserData) > 64
  /\ Len(doc.ciphertext) = 16
  /\ doc.counter = << 1 >> \o Zeros(31)

\* C22: whenever generateWorkingProof returns after witness generation
\* succeeded with a proving key available at step 7, the prover was run and
\* the result is success: true; and it returns success: true only when a
\* proof was generated in this run.
C22_CompleteProof ==
  (pc = "done" /\ call.fn = "generateWorkingProof" /\ ret.status = "returned") =>
    /\ (ret.witness /\ ret.zkey) => (ret.proverRan /\ ret.success)
    /\ ret.success => ret.proof

\* C27: a run of the workflow script attempts a witness only after the
\* circuit is compiled (or was already) and the input generation succeeded,
\* exits with status 1 otherwise, and prints its last line, "workflow
\* completed successfully", only when the witness of every test case was
\* generated.
C27_WorkflowOrder ==
  (pc = "done" /\ call.fn = "chacha20_workflow") =>
    LET prepared == (call.wasm \/ call.compileOk) /\ call.genOk
    IN  /\ ret.attempted # << >> => prepared
        /\ ~prepared => (ret.code = 1 /\ ret.attempted = << >>)
        /\ ret.completed => Len(ret.successfulWitnesses) = Len(TestCases)

\* what the converter makes of the input of the run, and what the stream
\* generator makes of the converted input
Converted == parseStringInputsToChacha(inputData)
ConvertedResult == generateChaCha20CircuitInputs(env, Converted.input)

\* C23: for every string-format input (text payload, hex key, hex nonce and
\* a counter), the stream generator ends the same way, with the same
\* document, on the input itself and on the ChaCha-format input the
\* converter makes of it.
C23_FormatsEquivalent ==
  (pc = "done" /\ family = "stream" /\ ChaChaFormat(inputData) = "string"
   /\ inputData.chacha20_nonce.kind = "hex" /\ Converted.status = "ok") =>
    LET r == ConvertedResult
    IN  r.status = status /\ r.doc = doc

\* C24: whenever generateChaCha20_50KB_CircuitInputs returns, the variant it
\* chose holds the whole payload: metadata.paddedDataSize = numBlocks * 64
\* is at least metadata.originalDataSize, and every payload byte is in the
\* ciphertext.
C24_VariantFits ==
  (pc = "done" /\ call.fn = "generateChaCha20_50KB" /\ ret.status = "ok") =>
    /\ ret.metadata.paddedDataSize = ret.metadata.numBlocks * 64
    /\ ret.metadata.originalDataSize = Len(ChaChaUserData(call.inputData))
    /\ ret.metadata.paddedDataSize >= ret.metadata.originalDataSize

\* what the large-payload generator makes of the input of the run
LargeResult == generateChaCha20_50KB_CircuitInputs(inputData)

\* C30: for an input that fills the same number of blocks in both stream
\* generators (at most 64 payload bytes under CIRCUIT_SIZE 64B, or 65..1024
\* under 1KB), generateChaCha20_50KB_CircuitInputs returns as inputs the
\* document generateChaCha20CircuitInputs returns, also for key or nonce
\* arrays that are shorter or longer than 32 and 12 entries; and it throws
\* exactly when that one throws.
C30_DuplicatesAgree ==
  (pc = "done" /\ family = "stream"
   /\ \/ env = "64B" /\ Len(UserData) <= 64
      \/ env = "1KB" /\ Len(UserData) > 64 /\ Len(UserData) <= 1024) =>
    LET r == LargeResult
    IN  /\ r.status = status
        /\ r.inputs = doc
        /\ status = "ok" => r.metadata.numBlocks = NUM_BLOCKS(env)

\* C30 witness: a payload of exactly 64 bytes in one block, and a key array
\* of 33 entries with a nonce array of 11
C30_Witness ==
  /\ Emitted /\ family = "stream" /\ env = "64B"
  /\ \/ Len(UserData) = 64 /\ LargeResult.metadata.numBlocks = 1
     \/ /\ inputData.chacha20_key.kind = "array" /\ Len(inputData.chacha20_key.val) = 33
        /\ Len(inputData.chacha20_nonce.val) = 11
  /\ LargeResult.inputs = doc

\* the counter the running generator reads is a number or decimal string
\* outside 0 .. 2^32 - 1
CounterOutOfRange ==
  /\ CounterField.kind \in {"num", "str"}
  /\ ~CounterField.num.nan
  /\ (CounterField.num.hi < 0 \/ CounterField.num.hi > 65535)

\* C28: in both families a run whose counter is negative or at least 2^32
\* ends in an error and returns no document.
C28_CounterRangeChecked ==
  (Done /\ CounterOutOfRange) => (status = "error" /\ doc = EmptyDoc)

\* the 8 bits that entry k (from 0) of a key or nonce array is encoded to
ByteGroup(words, k) == SubSeq(words[(k \div 4) + 1], 8 * (k % 4) + 1, 8 * (k % 4) + 8)

\* the document for the input of the run with entry j of the key array, or
\* of the nonce array, replaced by 0
WithoutKeyEntry(j) ==
  generateChaCha20CircuitInputs(env, [inputData EXCEPT !.chacha20_key.val[j] = 0]).doc
WithoutNonceEntry(j) ==
  generateChaCha20CircuitInputs(env, [inputData EXCEPT !.chacha20_nonce.val[j] = 0]).doc

\* C29: in a document returned for ChaCha-format input, the 8 bits of every
\* key and nonce byte other than byte j are the same as in the document for
\* the input with entry j set to 0, whatever integer entry j holds
\* (CIRCUIT_SIZE 64B).
C29_EntriesIndependent ==
  (Emitted /\ family = "stream" /\ env = "64B"
   /\ inputData.chacha20_key.kind = "array" /\ inputData.chacha20_nonce.kind = "array") =>
    /\ \A j \in 1..Min(Len(inputData.chacha20_key.val), 32) :
         \A k \in 0..31 :
           k # j - 1 => ByteGroup(WithoutKeyEntry(j).key, k) = ByteGroup(doc.key, k)
    /\ \A j \in 1..Min(Len(inputData.chacha20_nonce.val), 12) :
         \A k \in 0..11 :
           k # j - 1 => ByteGroup(WithoutNonceEntry(j).nonce, k) = ByteGroup(doc.nonce, k)

\* what processing file i of the list alone leaves behind
ChaChaFileAlone(i) ==
  ChaChaFileOutcome(files[i], generateChaCha20CircuitInputs(env, files[i].data))

\* C25: processAllInputFiles takes the files in list order, one per
\* iteration, and stops only after the last; a missing file leaves no result
\* entry and no output; a file whose encoding throws leaves an entry with
\* success false and the error message; and what every processed file
\* leaves is what it leaves when processed alone, whatever happened to the
\* files before it.
C25_BatchIsolation ==
  (family = "stream" /\ files # << >>) =>
    /\ Len(results) = cursor /\ cursor <= Len(files)
    /\ (pc \in {"summary", "done"}) <=> (cursor = Len(files))
    /\ \A i \in 1..cursor :
         /\ ~files[i].exists => (results[i].outcome = "skipped" /\ ~written[i].exists)
         /\ (files[i].exists /\ files[i].json /\ EncodingThrows(i)) =>
              /\ results[i].outcome = "error"
              /\ results[i].error = generateChaCha20CircuitInputs(env, files[i].data).error
         /\ results[i] = [outcome |-> ChaChaFileAlone(i).outcome, error |-> ChaChaFileAlone(i).error]
         /\ written[i] = ChaChaFileAlone(i).output

\* C25 witness: the encoding of the first file threw and the second file was
\* still processed and written
C25_Witness ==
  /\ family = "stream" /\ cursor = 2
  /\ files[1].exists /\ files[1].json /\ results[1].outcome = "error"
  /\ results[1].error = "Invalid input format. Expected string format or ChaCha format."
  /\ results[2].outcome = "success" /\ written[2].exists

\* C26: every line of the final summary of the AES-256 batch that shows an
\* input file as converted to its output file is about a file whose output
\* processInputFile wrote in this run.
C26_SummaryFaithful ==
  (family = "block" /\ pc = "done" /\ files # << >>) =>
    \A n \in 1..Len(log) :
      log[n].mark = "ok" =>
        (written[log[n].file].exists /\ results[log[n].file].outcome = "success")

====
